---- MODULE Spec2Model ----
(***************************************************************************)
(* The recipe crawler of src/server/crawler.ts as a state machine:         *)
(* fetchWithRetry, crawlRecipe and runCrawler, run by the two triggers of  *)
(* src/server/routes.ts (the manual POST route and the daily cron job)     *)
(* against the recipes and crawler_configs tables of src/db/schema.ts.     *)
(* One action is one step between two await points of the code.            *)
(***************************************************************************)
EXTENDS Integers, Sequences, FiniteSets, TLC

VARIABLES
    recipes,         \* the recipes table: a sequence of rows in insertion order
    crawlerConfigs,  \* the crawler_configs table: site id -> row
    web,             \* the crawled sites: site id -> hrefs of the anchors its listing page holds
    run,             \* trigger -> the locals of its runCrawler invocation
    started,         \* number of runCrawler invocations so far (the clock of new Date())
    runLog,          \* history: one entry per settled runCrawler invocation
    injected,        \* number of failures the environment has injected so far
    xpage,           \* SpecExtract: the page given to the extraction of crawlRecipe
    xresult,         \* SpecExtract: what the extraction returned for xpage
    handler,         \* SpecRoute: which handler of POST /api/admin/crawler/run is registered
    analysis,        \* SpecAnalyze: the locals of the analyzeWebsite invocation
    res,             \* SpecRoute: the response to the latest POST /api/admin/crawler/run
    ucall,           \* SpecUrl: the arguments of the call under study
    uresult          \* SpecUrl: what the calls made so far returned

vars == <<recipes, crawlerConfigs, web, run, started, runLog, injected, xpage, xresult,
          handler, analysis, res, ucall, uresult>>

----------------------------------------------------------------------------
(* Bounds of the model                                                     *)

\* runCrawler invocations in one behaviour
MaxRuns == 2
\* failures (failed HTTP attempts, failed store operations) injected in one behaviour
MaxFaults == 3

(* Program constants                                                       *)

\* fetchWithRetry(url, maxRetries = 3)
maxRetries == 3
\* delay(1000 * attempt)
BackoffBase == 1000
\* await delay(2000)
CourtesyDelay == 2000
\* prepTime: 30, cookTime: 30
DefaultTime == 30
\* servings: 4
DefaultServings == 4

----------------------------------------------------------------------------
(* Text: a string is a sequence of characters, " " the whitespace          *)

Chars == {" ", "x", "y"}

RECURSIVE TrimLeft(_)
TrimLeft(s) == IF s # <<>> /\ Head(s) = " " THEN TrimLeft(Tail(s)) ELSE s

RECURSIVE TrimRight(_)
TrimRight(s) ==
    IF s # <<>> /\ s[Len(s)] = " " THEN TrimRight(SubSeq(s, 1, Len(s) - 1)) ELSE s

\* String.prototype.trim
trim(s) == TrimRight(TrimLeft(s))

\* a JavaScript value that is a string or undefined
Undefined == [def |-> FALSE, s |-> <<>>]
Str(s) == [def |-> TRUE, s |-> s]

\* truthiness of a string-or-undefined value: undefined and "" are falsy
Truthy(v) == v.def /\ v.s # <<>>

\* a || b
OrElse(a, b) == IF Truthy(a) THEN a ELSE b

\* document.querySelector(sel)?.textContent?.trim(), els the texts of the
\* elements that match sel in document order
QueryText(els) == IF els = <<>> THEN Undefined ELSE Str(trim(Head(els)))

\* Array.from(document.querySelectorAll(sel)).map(el => el.textContent?.trim())
\*   .filter(text => Boolean(text))
QueryAllText(els) ==
    SelectSeq([i \in 1..Len(els) |-> trim(els[i])], LAMBDA t : t # <<>>)

----------------------------------------------------------------------------
(* crawlRecipe: the extraction of one parsed detail page.  A page is the   *)
(* record of what each selector of the code matches in it: per selector,   *)
(* the texts of the matching elements in document order.                   *)

\* the alternativeSelectors of crawlRecipe, in the order they are tried
alternativeSelectors ==
    <<"ol li", ".recipe-method li", ".recipe-steps li",
      "[itemprop='recipeInstructions'] li", ".preparation-steps li">>

\* selectors.title, then the first h1
ExtractTitle(page) == OrElse(QueryText(page.title), QueryText(page.h1))

\* selectors.description, then meta[name='description'], .recipe-summary,
\* [itemprop='description']
ExtractDescription(page) ==
    OrElse(OrElse(OrElse(QueryText(page.description), QueryText(page.metaDescription)),
                  QueryText(page.recipeSummary)),
           QueryText(page.itempropDescription))

\* .filter(text => text.length > 1): single characters are dropped
LongEnough(text) == Len(text) > 1

ExtractIngredients(page) == SelectSeq(QueryAllText(page.ingredients), LongEnough)

\* the loop over alternativeSelectors: the first that yields any text wins
RECURSIVE TryAlternatives(_, _)
TryAlternatives(alts, i) ==
    IF i > Len(alternativeSelectors) THEN <<>>
    ELSE LET found == QueryAllText(alts[i])
         IN IF Len(found) > 0 THEN found ELSE TryAlternatives(alts, i + 1)

ExtractInstructions(page) ==
    LET primary == QueryAllText(page.instructions)
    IN IF Len(primary) = 0 THEN TryAlternatives(page.alternatives, 1) ELSE primary

\* crawlRecipe returned null
NoRecipe == [isNull |-> TRUE]

\* mutant of MissingRequired: the description is not required
MissingRequiredNoDescription(title, description, ingredients, instructions) ==
    ~Truthy(title) \/ Len(ingredients) = 0 \/ Len(instructions) = 0

\* mutant of MissingRequired: an empty ingredient list is accepted
MissingRequiredNoIngredients(title, description, ingredients, instructions) ==
    ~Truthy(title) \/ ~Truthy(description) \/ Len(instructions) = 0

\* !title || !description || ingredients.length === 0 || instructions.length === 0
MissingRequired(title, description, ingredients, instructions) ==
    ~Truthy(title) \/ ~Truthy(description) \/ Len(ingredients) = 0 \/ Len(instructions) = 0

\* crawlRecipe from the parsed document on: the record, or null
ExtractRecipe(url, page) ==
    LET title == ExtractTitle(page)
        description == ExtractDescription(page)
        ingredients == ExtractIngredients(page)
        instructions == ExtractInstructions(page)
    IN IF MissingRequired(title, description, ingredients, instructions)
       THEN NoRecipe
       ELSE [isNull |-> FALSE, title |-> title.s, description |-> description.s,
             ingredients |-> ingredients, instructions |-> instructions,
             sourceUrl |-> url]

----------------------------------------------------------------------------
(* The crawled world of the state machine: two configured sites, the       *)
(* anchors of their listing pages and the detail pages behind the links.   *)

Sites == {1, 2}

Triggers == {"manual", "cron"}

SiteName(id) == IF id = 1 THEN "Site A" ELSE "Site B"
SiteUrl(id) == IF id = 1 THEN "https://a.test/" ELSE "https://b.test/"

R1 == "https://a.test/recipes/1"
R2 == "https://a.test/recipes/2"
R3 == "https://a.test/recipes/3"
R4 == "https://a.test/recipe/4"
About == "https://a.test/about"

NoAlternatives == << <<>>, <<>>, <<>>, <<>>, <<>> >>

EmptyPage ==
    [title |-> <<>>, h1 |-> <<>>, description |-> <<>>, metaDescription |-> <<>>,
     recipeSummary |-> <<>>, itempropDescription |-> <<>>, ingredients |-> <<>>,
     instructions |-> <<>>, alternatives |-> NoAlternatives]

\* the detail page behind each URL
PageAt(url) ==
    CASE url = R1 ->
           \* complete page, title "x"
           [EmptyPage EXCEPT !.title = << <<" ", "x">> >>,
                             !.description = << <<"y">> >>,
                             !.ingredients = << <<"x", "y">>, <<"x">> >>,
                             !.instructions = << <<"x">> >>]
      [] url = R2 ->
           \* complete through the fallbacks, and the same title "x" as R1
           [EmptyPage EXCEPT !.h1 = << <<"x">> >>,
                             !.metaDescription = << <<"x", " ">> >>,
                             !.ingredients = << <<"y", "x">> >>,
                             !.alternatives = << <<>>, << <<"y">> >>, <<>>, <<>>, <<>> >>]
      [] url = R3 ->
           \* no ingredient longer than one character
           [EmptyPage EXCEPT !.title = << <<"y">> >>,
                             !.description = << <<"x">> >>,
                             !.ingredients = << <<"x">>, <<" ">> >>,
                             !.instructions = << <<"x">> >>]
      [] url = R4 ->
           \* complete page, title "y"
           [EmptyPage EXCEPT !.title = << <<"y">> >>,
                             !.description = << <<"x">> >>,
                             !.ingredients = << <<"y", "y">> >>,
                             !.instructions = << <<"y">>, <<"y">> >>]
      [] OTHER -> EmptyPage

\* the listing pages a site may serve: the hrefs of the anchors that the
\* recipeLinks selector matches, in document order
Listings == { <<>>, <<R1, R2>>, <<R3, About, R4>> }

\* normalizedUrl.includes('/recipe') || normalizedUrl.includes('/recipes') ||
\* normalizedUrl.includes('cast-iron'), on the URLs of this world
LooksLikeRecipe(url) == url \in {R1, R2, R3, R4}

\* findRecipeLinks: every matched anchor whose URL looks like a recipe page,
\* in document order, repeated anchors kept
findRecipeLinks(document) == SelectSeq(document, LooksLikeRecipe)

\* mutant of RecipeRow: sourceName is left out of the inserted values
RecipeRowNoSource(recipeData, siteName) ==
    [title |-> recipeData.title, description |-> recipeData.description,
     ingredients |-> recipeData.ingredients, instructions |-> recipeData.instructions,
     sourceUrl |-> recipeData.sourceUrl, cookwareType |-> "skillet",
     difficulty |-> "medium", prepTime |-> DefaultTime, cookTime |-> DefaultTime,
     servings |-> DefaultServings, sourceName |-> ""]

\* a row of the recipes table as runCrawler writes it
RecipeRow(recipeData, siteName) ==
    [title |-> recipeData.title, description |-> recipeData.description,
     ingredients |-> recipeData.ingredients, instructions |-> recipeData.instructions,
     sourceUrl |-> recipeData.sourceUrl, cookwareType |-> "skillet",
     difficulty |-> "medium", prepTime |-> DefaultTime, cookTime |-> DefaultTime,
     servings |-> DefaultServings, sourceName |-> siteName]

\* the recipes tables a behaviour starts from: empty, or one row crawled earlier
InitialStores ==
    { <<>>, << RecipeRow(ExtractRecipe(R1, PageAt(R1)), SiteName(1)) >> }

\* which configurations are enabled at the start: both, the second only, none
InitialEnabled ==
    { [id \in Sites |-> TRUE], [id \in Sites |-> id = 2], [id \in Sites |-> FALSE] }

----------------------------------------------------------------------------
(* fetchWithRetry                                                          *)

NoError == [kind |-> "none", status |-> 0, attempt |-> 0]
NoResponse == [status |-> 0, attempt |-> 0]
NoFetch == [attempts |-> <<>>, result |-> "none", response |-> NoResponse, error |-> NoError]

\* what one fetch(url) can do: reject (network error) or resolve with a status
Outcomes ==
    { [kind |-> "network", status |-> 0],
      [kind |-> "http", status |-> 200],
      [kind |-> "http", status |-> 404] }

\* response.ok
ResponseOk(status) == status >= 200 /\ status <= 299

\* the attempt is one the environment made fail
Injected(o) == ~(o.kind = "http" /\ o.status >= 200 /\ o.status <= 299)

\* mutant of MayRetry: off by one, a fourth attempt follows the third
MayRetryOnceMore(attempt) == attempt <= maxRetries

\* if (attempt < maxRetries): another attempt follows
MayRetry(attempt) == attempt < maxRetries

\* mutant of BackoffDelay: the same wait before every retry
BackoffDelayConstant(attempt) == BackoffBase

\* await delay(1000 * attempt)
BackoffDelay(attempt) == BackoffBase * attempt

\* mutant of RecordError: only the first failure is remembered
RecordFirstError(lastError, error) == IF lastError = NoError THEN error ELSE lastError

\* lastError = error as Error
RecordError(lastError, error) == error

\* One iteration of the loop of fetchWithRetry on outcome o of fetch(url):
\* return the response, or record the error and back off, or leave the loop
\* and throw lastError.  pc "thrown" is left within the same step, by the
\* catch block that handles it.
fetchAttempt(rr, o) ==
    LET log == Append(rr.httpLog, o)
    IN IF o.kind = "http" /\ ResponseOk(o.status)
       THEN LET resp == [status |-> o.status, attempt |-> rr.attempt]
            IN [rr EXCEPT !.pc = "parse", !.response = resp, !.httpLog = <<>>,
                          !.lastError = NoError, !.attempt = 0,
                          !.lastFetch = [attempts |-> log, result |-> "returned",
                                         response |-> resp, error |-> NoError]]
       ELSE LET error == [kind |-> o.kind, status |-> o.status, attempt |-> rr.attempt]
                last == RecordError(rr.lastError, error)
            IN IF MayRetry(rr.attempt)
               THEN [rr EXCEPT !.pc = "backoff", !.lastError = last, !.httpLog = log,
                               !.timer = BackoffDelay(rr.attempt), !.lastFetch = NoFetch]
               ELSE [rr EXCEPT !.pc = "thrown", !.lastError = NoError, !.httpLog = <<>>,
                               !.attempt = 0,
                               !.lastFetch = [attempts |-> log, result |-> "thrown",
                                              response |-> NoResponse, error |-> last]]

----------------------------------------------------------------------------
(* runCrawler: the locals of one invocation and its control flow           *)

IdleRun ==
    [pc |-> "idle", stage |-> "none", configs |-> <<>>, siteIdx |-> 0,
     validLinks |-> <<>>, linkIdx |-> 0, attempt |-> 0, lastError |-> NoError,
     response |-> NoResponse, recipeData |-> NoRecipe, newRecipes |-> 0,
     duplicates |-> 0, timer |-> 0, error |-> NoError,
     \* history of this invocation; lastFetch is the fetchWithRetry call that
     \* completed in the last step of the invocation
     httpLog |-> <<>>, lastFetch |-> NoFetch, linkLog |-> <<>>, visited |-> {},
     totalNew |-> 0, totalDup |-> 0, stamp |-> 0, overlap |-> FALSE,
     \* the sites whose listing fetch failed for good in this invocation
     unreachable |-> {},
     \* the sites left by a failed dedup query or insert in this invocation
     storeFailed |-> {}]

\* the configuration and the link the invocation is working on
Config(rr) == rr.configs[rr.siteIdx]
Link(rr) == rr.validLinks[rr.linkIdx]

\* mutant of NextSite: the loop index advances twice, every other
\* configuration is passed over
NextSiteSkip(rr) ==
    IF rr.siteIdx + 1 < Len(rr.configs)
    THEN [rr EXCEPT !.siteIdx = @ + 2, !.pc = "fetch", !.stage = "listing",
                    !.attempt = 1, !.lastError = NoError, !.httpLog = <<>>,
                    !.validLinks = <<>>, !.linkIdx = 0, !.timer = 0,
                    !.recipeData = NoRecipe, !.newRecipes = 0, !.duplicates = 0,
                    !.visited = @ \cup {rr.configs[rr.siteIdx + 2]}]
    ELSE [rr EXCEPT !.pc = "returned", !.stage = "none", !.timer = 0,
                    !.recipeData = NoRecipe]

\* for (const config of configs): the next configuration, or the end of the run
NextSite(rr) ==
    IF rr.siteIdx < Len(rr.configs)
    THEN [rr EXCEPT !.siteIdx = @ + 1, !.pc = "fetch", !.stage = "listing",
                    !.attempt = 1, !.lastError = NoError, !.httpLog = <<>>,
                    !.validLinks = <<>>, !.linkIdx = 0, !.timer = 0,
                    !.recipeData = NoRecipe, !.newRecipes = 0, !.duplicates = 0,
                    !.visited = @ \cup {rr.configs[rr.siteIdx + 1]}]
    ELSE [rr EXCEPT !.pc = "returned", !.stage = "none", !.timer = 0,
                    !.recipeData = NoRecipe]

\* mutant of NextLink: crawlRecipe is called without the delay before it
NextLinkNoDelay(rr) ==
    IF rr.linkIdx < Len(rr.validLinks)
    THEN [rr EXCEPT !.linkIdx = @ + 1, !.pc = "fetch", !.stage = "detail",
                    !.attempt = 1, !.lastError = NoError, !.httpLog = <<>>,
                    !.timer = 0, !.recipeData = NoRecipe]
    ELSE [rr EXCEPT !.pc = "update", !.stage = "listing", !.timer = 0,
                    !.recipeData = NoRecipe]

\* mutant of NextLink: the loop is left after its first link
NextLinkBreak(rr) ==
    IF rr.linkIdx < Len(rr.validLinks) /\ rr.linkIdx < 1
    THEN [rr EXCEPT !.linkIdx = @ + 1, !.pc = "delay", !.stage = "detail",
                    !.timer = CourtesyDelay, !.recipeData = NoRecipe]
    ELSE [rr EXCEPT !.pc = "update", !.stage = "listing", !.timer = 0,
                    !.recipeData = NoRecipe]

\* mutant of NextLink: the loop does not advance, the first link is taken
\* again and again
NextLinkAgain(rr) ==
    IF rr.linkIdx < Len(rr.validLinks)
    THEN [rr EXCEPT !.linkIdx = IF @ = 0 THEN 1 ELSE @, !.pc = "delay",
                    !.stage = "detail", !.timer = CourtesyDelay,
                    !.recipeData = NoRecipe]
    ELSE [rr EXCEPT !.pc = "update", !.stage = "listing", !.timer = 0,
                    !.recipeData = NoRecipe]

\* for (const link of validLinks): the courtesy delay of the next link, or
\* the lastCrawl update that follows the loop
NextLink(rr) ==
    IF rr.linkIdx < Len(rr.validLinks)
    THEN [rr EXCEPT !.linkIdx = @ + 1, !.pc = "delay", !.stage = "detail",
                    !.timer = CourtesyDelay, !.recipeData = NoRecipe]
    ELSE [rr EXCEPT !.pc = "update", !.stage = "listing", !.timer = 0,
                    !.recipeData = NoRecipe]

\* mutant of SiteCatch: no try/catch around the body of the site loop, the
\* failure reaches the outer catch, which rethrows
SiteCatchAbort(rr, e) ==
    [rr EXCEPT !.pc = "raised", !.stage = "none", !.error = e, !.timer = 0,
               !.recipeData = NoRecipe]

\* catch (error) { log(`Failed to crawl ...`); continue; } of the site loop
SiteCatch(rr, e) == NextSite(rr)

\* mutant of CrawlRecipeCatch: crawlRecipe lets the failure escape
CrawlRecipeRethrow(rr, e) == SiteCatch(rr, e)

\* catch (error) { log(`Failed to crawl recipe ...`); return null; } of
\* crawlRecipe, then if (recipeData) is false in runCrawler
CrawlRecipeCatch(rr, e) ==
    NextLink([rr EXCEPT !.linkLog = Append(@, "fetch_failed")])

\* mutant of ListingCatch: the lastCrawl update sits in a finally block and
\* follows the failure of the listing fetch too
ListingCatchStamps(rr, e) ==
    [rr EXCEPT !.unreachable = @ \cup {Config(rr)}, !.pc = "update",
               !.stage = "listing", !.timer = 0]

\* the listing fetch threw inside the try block of the site loop: the rest of
\* the block, the lastCrawl update included, is skipped
ListingCatch(rr, e) ==
    SiteCatch([rr EXCEPT !.unreachable = @ \cup {Config(rr)}], e)

\* mutant of StoreCatch: the query and the insert sit in a try block of their
\* own inside the link loop, and the loop goes on with the next link
StoreCatchPerLink(rr, e) ==
    NextLink([rr EXCEPT !.linkLog = Append(@, "store_failed"),
                        !.storeFailed = @ \cup {Config(rr)}])

\* the dedup query or the insert threw: nothing inside the link loop catches
\* it, the catch block of the site loop does
StoreCatch(rr, e) ==
    SiteCatch([rr EXCEPT !.linkLog = Append(@, "store_failed"),
                         !.storeFailed = @ \cup {Config(rr)}], e)

\* the catch block that a throw of fetchWithRetry reaches
AfterFetch(f) ==
    IF f.pc # "thrown" THEN f
    ELSE IF f.stage = "detail" THEN CrawlRecipeCatch(f, f.lastFetch.error)
         ELSE ListingCatch(f, f.lastFetch.error)

----------------------------------------------------------------------------
(* The store                                                               *)

StoreError == [kind |-> "store", status |-> 0, attempt |-> 0]

\* the ids of crawler_configs in the order the select returns them
SiteOrder == <<1, 2>>

\* mutant of EnabledConfigs: the where clause is missing
EnabledConfigsAll(table) == SiteOrder

\* db.select().from(crawlerConfigs).where(eq(crawlerConfigs.enabled, true))
EnabledConfigs(table) == SelectSeq(SiteOrder, LAMBDA id : table[id].enabled)

\* mutant of ExistingRecipe: the dedup query never finds a row
ExistingRecipeNever(rows, title, sourceName) == FALSE

\* db.select().from(recipes).where(and(eq(recipes.title, title),
\*   eq(recipes.sourceName, siteName))).limit(1) returned a row
ExistingRecipe(rows, title, sourceName) ==
    \E i \in 1..Len(rows) : rows[i].title = title /\ rows[i].sourceName = sourceName

\* mutant of OnDuplicate: the continue is missing, the insert follows
OnDuplicateFallThrough(rr) ==
    [rr EXCEPT !.duplicates = @ + 1, !.totalDup = @ + 1, !.pc = "insert"]

\* if (existingRecipe) { duplicates++; continue; }
OnDuplicate(rr) ==
    NextLink([rr EXCEPT !.duplicates = @ + 1, !.totalDup = @ + 1,
                        !.linkLog = Append(@, "duplicate")])

----------------------------------------------------------------------------
(* Actions                                                                 *)

\* runCrawler() is called: the invocation runs up to its first await
CallRunCrawler(r) ==
    /\ run[r].pc = "idle"
    /\ started < MaxRuns
    /\ started' = started + 1
    /\ run' = [run EXCEPT ![r] =
                  [IdleRun EXCEPT !.pc = "load", !.stamp = started + 1,
                                  !.overlap = \E q \in Triggers : run[q].pc # "idle"]]
    /\ UNCHANGED <<recipes, crawlerConfigs, web, runLog, injected, xpage, xresult,
                    handler, analysis, ucall, uresult>>

\* POST /api/admin/crawler/run and the cron job: runCrawler() is called,
\* whatever other invocation is under way
Trigger(r) ==
    /\ CallRunCrawler(r)
    /\ UNCHANGED res

\* a trigger that fires while no invocation is under way
TriggerAlone(r) ==
    /\ \A q \in Triggers : run[q].pc = "idle"
    /\ Trigger(r)

\* const configs = await db.select()...: the enabled configurations, or the
\* failure that the outer catch logs and rethrows
LoadConfigs(r) ==
    LET rr == run[r]
    IN /\ rr.pc = "load"
       /\ \/ /\ run' = [run EXCEPT ![r] =
                           NextSite([rr EXCEPT !.configs = EnabledConfigs(crawlerConfigs)])]
             /\ UNCHANGED injected
          \/ /\ injected < MaxFaults
             /\ injected' = injected + 1
             /\ run' = [run EXCEPT ![r] =
                           [rr EXCEPT !.pc = "raised", !.error = StoreError]]
       /\ UNCHANGED <<recipes, crawlerConfigs, web, started, runLog, xpage, xresult,
                    handler, analysis, res, ucall, uresult>>

\* one attempt of fetchWithRetry, for a listing page or a detail page
FetchAttempt(r) ==
    LET rr == run[r]
    IN /\ rr.pc = "fetch"
       /\ \E o \in Outcomes :
            /\ Injected(o) => injected < MaxFaults
            /\ injected' = IF Injected(o) THEN injected + 1 ELSE injected
            /\ run' = [run EXCEPT ![r] =
                          AfterFetch(fetchAttempt(rr, o))]
       /\ UNCHANGED <<recipes, crawlerConfigs, web, started, runLog, xpage, xresult,
                    handler, analysis, res, ucall, uresult>>

\* await delay(1000 * attempt) has elapsed: the next iteration of the loop
Backoff(r) ==
    LET rr == run[r]
    IN /\ rr.pc = "backoff"
       /\ run' = [run EXCEPT ![r] = [rr EXCEPT !.pc = "fetch", !.attempt = @ + 1,
                                                !.timer = 0]]
       /\ UNCHANGED <<recipes, crawlerConfigs, web, started, runLog, injected, xpage, xresult,
                    handler, analysis, res, ucall, uresult>>

\* the listing page is parsed and findRecipeLinks has returned
ParseListing(r) ==
    LET rr == run[r]
    IN /\ rr.pc = "parse" /\ rr.stage = "listing"
       /\ run' = [run EXCEPT ![r] =
                     NextLink([rr EXCEPT !.validLinks = findRecipeLinks(web[Config(rr)]),
                                         !.linkIdx = 0, !.linkLog = <<>>,
                                         !.response = NoResponse, !.lastFetch = NoFetch,
                                         !.newRecipes = 0, !.duplicates = 0])]
       /\ UNCHANGED <<recipes, crawlerConfigs, web, started, runLog, injected, xpage, xresult,
                    handler, analysis, res, ucall, uresult>>

\* await delay(2000) has elapsed: crawlRecipe(link, ...) starts its fetch
Delay(r) ==
    LET rr == run[r]
    IN /\ rr.pc = "delay"
       /\ run' = [run EXCEPT ![r] = [rr EXCEPT !.pc = "fetch", !.attempt = 1,
                                                !.lastError = NoError, !.httpLog = <<>>,
                                                !.timer = 0, !.lastFetch = NoFetch]]
       /\ UNCHANGED <<recipes, crawlerConfigs, web, started, runLog, injected, xpage, xresult,
                    handler, analysis, res, ucall, uresult>>

\* crawlRecipe parses the detail page, extracts and returns; a null skips the link
ParseDetail(r) ==
    LET rr == run[r]
        recipeData == ExtractRecipe(Link(rr), PageAt(Link(rr)))
    IN /\ rr.pc = "parse" /\ rr.stage = "detail"
       /\ run' = [run EXCEPT ![r] =
                     IF recipeData = NoRecipe
                     THEN NextLink([rr EXCEPT !.response = NoResponse,
                                              !.lastFetch = NoFetch,
                                              !.linkLog = Append(@, "rejected")])
                     ELSE [rr EXCEPT !.pc = "dedup", !.response = NoResponse,
                                     !.lastFetch = NoFetch, !.recipeData = recipeData]]
       /\ UNCHANGED <<recipes, crawlerConfigs, web, started, runLog, injected, xpage, xresult,
                    handler, analysis, res, ucall, uresult>>

\* the dedup query: a found row skips the link (continue), none leads to the
\* insert; a failed query is caught at the site boundary
DedupQuery(r) ==
    LET rr == run[r]
    IN /\ rr.pc = "dedup"
       /\ \/ /\ run' = [run EXCEPT ![r] =
                           IF ExistingRecipe(recipes, rr.recipeData.title,
                                             SiteName(Config(rr)))
                           THEN OnDuplicate(rr)
                           ELSE [rr EXCEPT !.pc = "insert"]]
             /\ UNCHANGED injected
          \/ /\ injected < MaxFaults
             /\ injected' = injected + 1
             /\ run' = [run EXCEPT ![r] =
                           StoreCatch(rr, StoreError)]
       /\ UNCHANGED <<recipes, crawlerConfigs, web, started, runLog, xpage, xresult,
                    handler, analysis, res, ucall, uresult>>

\* await db.insert(recipes).values({...}): the row is written, or the
\* failure is caught at the site boundary
Insert(r) ==
    LET rr == run[r]
    IN /\ rr.pc = "insert"
       /\ \/ /\ recipes' = Append(recipes, RecipeRow(rr.recipeData, SiteName(Config(rr))))
             /\ run' = [run EXCEPT ![r] =
                           NextLink([rr EXCEPT !.newRecipes = @ + 1, !.totalNew = @ + 1,
                                               !.linkLog = Append(@, "inserted")])]
             /\ UNCHANGED injected
          \/ /\ injected < MaxFaults
             /\ injected' = injected + 1
             /\ UNCHANGED recipes
             /\ run' = [run EXCEPT ![r] =
                           StoreCatch(rr, StoreError)]
       /\ UNCHANGED <<crawlerConfigs, web, started, runLog, xpage, xresult,
                    handler, analysis, res, ucall, uresult>>

\* await db.update(crawlerConfigs).set({ lastCrawl: new Date() })
UpdateLastCrawl(r) ==
    LET rr == run[r]
    IN /\ rr.pc = "update"
       /\ \/ /\ crawlerConfigs' =
                    [crawlerConfigs EXCEPT ![Config(rr)].lastCrawl = started]
             /\ run' = [run EXCEPT ![r] = NextSite([rr EXCEPT !.lastFetch = NoFetch])]
             /\ UNCHANGED injected
          \/ /\ injected < MaxFaults
             /\ injected' = injected + 1
             /\ UNCHANGED crawlerConfigs
             /\ run' = [run EXCEPT ![r] =
                           SiteCatch([rr EXCEPT !.lastFetch = NoFetch], StoreError)]
       /\ UNCHANGED <<recipes, web, started, runLog, xpage, xresult,
                    handler, analysis, res, ucall, uresult>>

\* the promise of runCrawler() settles
PromiseSettles(r) ==
    LET rr == run[r]
    IN /\ rr.pc \in {"returned", "raised"}
       /\ runLog' = Append(runLog, [outcome |-> rr.pc, totalNew |-> rr.totalNew,
                                    totalDup |-> rr.totalDup, overlap |-> rr.overlap,
                                    rows |-> recipes])
       /\ run' = [run EXCEPT ![r] = IdleRun]
       /\ UNCHANGED <<recipes, crawlerConfigs, web, started, injected, xpage, xresult,
                       handler, analysis, ucall, uresult>>

\* the promise of runCrawler() settles: routes.ts logs a rejection, nothing else
Settle(r) ==
    /\ PromiseSettles(r)
    /\ UNCHANGED res

NoResult == [done |-> FALSE, recipe |-> NoRecipe]

\* no request to POST /api/admin/crawler/run has been made
NoReply == [status |-> 0, body |-> "none"]

\* analyzeWebsite has not been called: the locals of its invocation, the
\* fetchWithRetry call under way included
IdleAnalysis ==
    [pc |-> "idle", stage |-> "none", version |-> "none", site |-> <<>>,
     attempt |-> 0, lastError |-> NoError, response |-> NoResponse, timer |-> 0,
     httpLog |-> <<>>, lastFetch |-> NoFetch, recipeLinks |-> "none", links |-> <<>>,
     sampleRecipe |-> NoRecipe]

\* no call of normalizeUrl or findRecipeLinks is under study
NoCall == [fn |-> "none", url |-> <<>>, baseUrl |-> <<>>, hrefs |-> <<>>]
NoCalls == <<>>

Init ==
    /\ recipes \in InitialStores
    /\ \E enabled \in InitialEnabled :
         crawlerConfigs = [id \in Sites |->
                              [siteName |-> SiteName(id), siteUrl |-> SiteUrl(id),
                               enabled |-> enabled[id], lastCrawl |-> 0]]
    /\ web \in [Sites -> Listings]
    /\ run = [r \in Triggers |-> IdleRun]
    /\ started = 0
    /\ runLog = <<>>
    /\ injected = 0
    /\ xpage = EmptyPage
    /\ xresult = NoResult
    /\ handler = "background"
    /\ analysis = IdleAnalysis
    /\ res = NoReply
    /\ ucall = NoCall
    /\ uresult = NoCalls

\* the steps of an invocation between its call and its end
RunStep(r) ==
    \/ LoadConfigs(r)
    \/ FetchAttempt(r)
    \/ Backoff(r)
    \/ ParseListing(r)
    \/ Delay(r)
    \/ ParseDetail(r)
    \/ DedupQuery(r)
    \/ Insert(r)
    \/ UpdateLastCrawl(r)

Step(r) == RunStep(r) \/ Settle(r)

\* runs that never overlap
Next == \E r \in Triggers : TriggerAlone(r) \/ Step(r)

Spec == Init /\ [][Next]_vars

\* the listing pages of the behaviours checked for termination
LiveListings == { <<>>, <<R1, R2>> }

\* Runs that never overlap, under the scheduling of the event loop: a run
\* that can take a step (the promise it awaits settles, by the completion or
\* the failure of the fetch, the delay or the store operation) takes it.
\* The behaviours checked for termination hold one invocation: the clock
\* of the runs starts one short of its bound.
InitLive ==
    /\ recipes \in InitialStores
    /\ crawlerConfigs = [id \in Sites |->
                            [siteName |-> SiteName(id), siteUrl |-> SiteUrl(id),
                             enabled |-> TRUE, lastCrawl |-> 0]]
    /\ web \in [Sites -> LiveListings]
    /\ run = [r \in Triggers |-> IdleRun]
    /\ started = MaxRuns - 1
    /\ runLog = <<>>
    /\ injected = 0
    /\ xpage = EmptyPage
    /\ xresult = NoResult
    /\ handler = "background"
    /\ analysis = IdleAnalysis
    /\ res = NoReply
    /\ ucall = NoCall
    /\ uresult = NoCalls

SpecLive == InitLive /\ [][Next]_vars /\ \A r \in Triggers : WF_vars(Step(r))

\* runs as the program allows them: any trigger at any time
NextOverlap == \E r \in Triggers : Trigger(r) \/ Step(r)

\* the listing pages of the overlapping behaviours
OverlapListings == { <<>>, <<R1, R2>> }

\* Overlapping behaviours start from an empty recipes table with both
\* configurations enabled, and the environment injects at most one failure.
InitOverlap ==
    /\ recipes = <<>>
    /\ crawlerConfigs = [id \in Sites |->
                            [siteName |-> SiteName(id), siteUrl |-> SiteUrl(id),
                             enabled |-> TRUE, lastCrawl |-> 0]]
    /\ web \in [Sites -> OverlapListings]
    /\ run = [r \in Triggers |-> IdleRun]
    /\ started = 0
    /\ runLog = <<>>
    /\ injected = MaxFaults - 1
    /\ xpage = EmptyPage
    /\ xresult = NoResult
    /\ handler = "background"
    /\ analysis = IdleAnalysis
    /\ res = NoReply
    /\ ucall = NoCall
    /\ uresult = NoCalls

SpecOverlap == InitOverlap /\ [][NextOverlap]_vars

----------------------------------------------------------------------------
(* The extraction of crawlRecipe on its own, over a family of pages        *)

\* what one single-element selector can match: nothing, an element of
\* whitespace, an element with text
FieldEls == { <<>>, << <<" ">> >>, << <<" ", "x">> >> }
FallbackEls == { <<>>, << <<"y">> >> }
IngredientEls ==
    { <<>>, << <<"x">> >>, << <<"x", "y">> >>, << <<" ">>, <<"y", " ">>, <<"y", "x">> >> }
InstructionEls == { <<>>, << <<" ">> >>, << <<"x">>, <<"x">> >> }
AlternativeEls ==
    { NoAlternatives,
      << <<>>, << <<" ">> >>, << <<"y">> >>, <<>>, << <<"x">> >> >>,
      << << <<" ", " ">> >>, <<>>, <<>>, <<>>, <<>> >> }

Pages ==
    [title : FieldEls, h1 : FieldEls, description : FieldEls,
     metaDescription : FieldEls, recipeSummary : FallbackEls,
     itempropDescription : FallbackEls, ingredients : IngredientEls,
     instructions : InstructionEls, alternatives : AlternativeEls]

InitExtract ==
    /\ recipes = <<>>
    /\ crawlerConfigs = [id \in Sites |->
                            [siteName |-> SiteName(id), siteUrl |-> SiteUrl(id),
                             enabled |-> TRUE, lastCrawl |-> 0]]
    /\ web = [id \in Sites |-> <<>>]
    /\ run = [r \in Triggers |-> IdleRun]
    /\ started = 0
    /\ runLog = <<>>
    /\ injected = 0
    /\ xpage \in Pages
    /\ xresult = NoResult
    /\ handler = "background"
    /\ analysis = IdleAnalysis
    /\ res = NoReply
    /\ ucall = NoCall
    /\ uresult = NoCalls

\* crawlRecipe on a fetched page: the record it returns, or null
Extract ==
    /\ ~xresult.done
    /\ xresult' = [done |-> TRUE, recipe |-> ExtractRecipe(R1, xpage)]
    /\ UNCHANGED <<recipes, crawlerConfigs, web, run, started, runLog, injected, xpage,
                 handler, analysis, res, ucall, uresult>>

NextExtract == Extract

SpecExtract == InitExtract /\ [][NextExtract]_vars

----------------------------------------------------------------------------
(* The manual trigger: the handlers of POST /api/admin/crawler/run.        *)
(* routes.ts registers the route twice over its length: the handler of     *)
(* lines 97-107 calls runCrawler() and answers, the handler of lines       *)
(* 441-449 awaits runCrawler() before it answers.                          *)

Handlers == {"background", "awaited"}

Started == [status |-> 200, body |-> "Crawler started"]
Failed == [status |-> 500, body |-> "Failed to start crawler"]
\* the request has been received and not answered yet
Pending == [status |-> 0, body |-> "pending"]

\* a request arrives while no invocation is under way.  Lines 97-107:
\* runCrawler().catch(log); res.json({ message: "Crawler started" }).
\* Lines 441-449: await runCrawler() suspends the handler.
PostRun ==
    /\ \A q \in Triggers : run[q].pc = "idle"
    /\ CallRunCrawler("manual")
    /\ res' = IF handler = "background" THEN Started ELSE Pending

\* the daily job: runCrawler().catch(log)
CronTick == TriggerAlone("cron")

\* the promise settles.  The cron job and lines 99-101 log a rejection;
\* lines 441-449 resume: res.json({ message: "Crawler started" }) after a
\* return, res.status(500).json({ error: "Failed to start crawler" }) in the
\* catch after a rejection.
SettleRoute(r) ==
    \/ /\ r = "cron" \/ handler = "background"
       /\ Settle(r)
    \/ /\ r = "manual" /\ handler = "awaited"
       /\ res' = IF run[r].pc = "returned" THEN Started ELSE Failed
       /\ PromiseSettles(r)

\* one fault is left to the environment, either handler may be the one built
InitRoute ==
    /\ recipes = <<>>
    /\ crawlerConfigs = [id \in Sites |->
                            [siteName |-> SiteName(id), siteUrl |-> SiteUrl(id),
                             enabled |-> TRUE, lastCrawl |-> 0]]
    /\ web \in [Sites -> OverlapListings]
    /\ run = [r \in Triggers |-> IdleRun]
    /\ started = 0
    /\ runLog = <<>>
    /\ injected = MaxFaults - 1
    /\ xpage = EmptyPage
    /\ xresult = NoResult
    /\ handler \in Handlers
    /\ analysis = IdleAnalysis
    /\ res = NoReply
    /\ ucall = NoCall
    /\ uresult = NoCalls

NextRoute ==
    \/ PostRun
    \/ CronTick
    \/ \E r \in Triggers : RunStep(r) \/ SettleRoute(r)

SpecRoute == InitRoute /\ [][NextRoute]_vars

----------------------------------------------------------------------------
(* normalizeUrl and findRecipeLinks on strings.  A string is a sequence of *)
(* characters; new URL() is modelled for http, https and ftp URLs without  *)
(* query, fragment, dot segments or default ports, and for references that *)
(* carry another scheme of their own (data:).                              *)

Letters == {"a", "c", "d", "e", "f", "h", "i", "p", "r", "s", "t"}
Whitespace == {" "}

SchemeHttp == <<"h", "t", "t", "p", ":">>
SchemeHttps == <<"h", "t", "t", "p", "s", ":">>
SchemeFtp == <<"f", "t", "p", ":">>
Slashes == <<"/", "/">>
HTTP == SchemeHttp \o Slashes
HTTPS == SchemeHttps \o Slashes
FTP == SchemeFtp \o Slashes
DATA == <<"d", "a", "t", "a", ":">>
RECIPE == <<"/", "r", "e", "c", "i", "p", "e">>
RECIPES == RECIPE \o <<"s">>
CASTIRON == <<"c", "a", "s", "t", "-", "i", "r", "o", "n">>

\* String.prototype.startsWith and includes
StartsWith(s, p) == Len(s) >= Len(p) /\ SubSeq(s, 1, Len(p)) = p
Includes(s, sub) ==
    \E i \in 1..(Len(s) - Len(sub) + 1) : SubSeq(s, i, i + Len(sub) - 1) = sub

\* the index of the first c in s, or 0
IndexOf(s, c) ==
    IF \E i \in 1..Len(s) : s[i] = c
    THEN CHOOSE i \in 1..Len(s) : s[i] = c /\ \A j \in 1..(i - 1) : s[j] # c
    ELSE 0

\* mutant of RemoveWhitespace: replace(/\s+/, '') without the g flag removes
\* the first run of whitespace only
RemoveFirstWhitespace(s) ==
    LET i == IndexOf(s, " ")
    IN IF i = 0 THEN s ELSE SubSeq(s, 1, i - 1) \o TrimLeft(SubSeq(s, i, Len(s)))

\* replace(/\s+/g, '')
RemoveWhitespace(s) == SelectSeq(s, LAMBDA c : c \notin Whitespace)

\* new URL(s) throws
InvalidUrl == [ok |-> FALSE, protocol |-> <<>>, host |-> <<>>, path |-> <<>>]

\* new URL(s) for an http, https or ftp URL: protocol, host (with its port)
\* and path; it throws when s has no scheme or no host
ParseUrl(s) ==
    LET protocol == IF StartsWith(s, HTTPS) THEN SchemeHttps
                    ELSE IF StartsWith(s, HTTP) THEN SchemeHttp
                    ELSE IF StartsWith(s, FTP) THEN SchemeFtp ELSE <<>>
        rest == SubSeq(s, Len(protocol) + 3, Len(s))
        slash == IndexOf(rest, "/")
        host == IF slash = 0 THEN rest ELSE SubSeq(rest, 1, slash - 1)
        path == IF slash = 0 THEN <<"/">> ELSE SubSeq(rest, slash, Len(rest))
    IN IF protocol = <<>> \/ host = <<>> THEN InvalidUrl
       ELSE [ok |-> TRUE, protocol |-> protocol, host |-> host, path |-> path]

\* URL.origin
Origin(u) == u.protocol \o Slashes \o u.host

\* the reference starts with a scheme: letters followed by a colon
HasScheme(s) ==
    \E i \in 2..Len(s) : s[i] = ":" /\ \A j \in 1..(i - 1) : s[j] \in Letters

\* the path up to and including its last slash
RECURSIVE Dir(_)
Dir(path) ==
    IF path = <<>> \/ path[Len(path)] = "/" THEN path
    ELSE Dir(SubSeq(path, 1, Len(path) - 1))

\* the outcome of a block of code: the value it returns, or a throw
Returned(v) == [thrown |-> FALSE, value |-> v]
Thrown == [thrown |-> TRUE, value |-> <<>>]

\* URL.toString()
Href(u) == Origin(u) \o u.path

\* new URL(ref, base).toString(): a reference with the scheme of a
\* hierarchical URL is parsed on its own, and the parse may throw; a
\* reference with another scheme stands for itself; a relative path replaces
\* the last segment of the base path
ResolveUrl(ref, base) ==
    IF StartsWith(ref, FTP) \/ StartsWith(ref, HTTP) \/ StartsWith(ref, HTTPS)
    THEN IF ParseUrl(ref).ok THEN Returned(Href(ParseUrl(ref))) ELSE Thrown
    ELSE IF HasScheme(ref) THEN Returned(ref)
    ELSE Returned(Origin(base) \o Dir(base.path) \o ref)

\* mutant of RelativeCases: the test for '/' comes before the test for '//'
RelativeCasesRootFirst(cleanUrl, baseUrl) ==
    LET u == ParseUrl(baseUrl)
    IN IF ~u.ok THEN Thrown
       ELSE IF StartsWith(cleanUrl, <<"/">>) THEN Returned(Origin(u) \o cleanUrl)
       ELSE IF StartsWith(cleanUrl, Slashes) THEN Returned(u.protocol \o cleanUrl)
       ELSE ResolveUrl(cleanUrl, u)

\* the three branches of normalizeUrl that begin with new URL(baseUrl):
\* protocol-relative, root-relative, relative
RelativeCases(cleanUrl, baseUrl) ==
    LET u == ParseUrl(baseUrl)
    IN IF ~u.ok THEN Thrown
       ELSE IF StartsWith(cleanUrl, Slashes) THEN Returned(u.protocol \o cleanUrl)
       ELSE IF StartsWith(cleanUrl, <<"/">>) THEN Returned(Origin(u) \o cleanUrl)
       ELSE ResolveUrl(cleanUrl, u)

\* the try block of normalizeUrl in crawler.ts
TryNormalize(url, baseUrl) ==
    LET cleanUrl == RemoveWhitespace(trim(url))
    IN IF cleanUrl = <<>> THEN Returned(<<>>)
       ELSE IF StartsWith(cleanUrl, HTTP) \/ StartsWith(cleanUrl, HTTPS)
            THEN Returned(cleanUrl)
       ELSE RelativeCases(cleanUrl, baseUrl)

\* the try block of normalizeUrl in part_010: data: URIs are returned first
TryNormalizeData(url, baseUrl) ==
    LET cleanUrl == RemoveWhitespace(trim(url))
    IN IF cleanUrl = <<>> THEN Returned(<<>>)
       ELSE IF StartsWith(cleanUrl, DATA) THEN Returned(cleanUrl)
       ELSE IF StartsWith(cleanUrl, HTTP) \/ StartsWith(cleanUrl, HTTPS)
            THEN Returned(cleanUrl)
       ELSE RelativeCases(cleanUrl, baseUrl)

\* mutant of CatchNormalize: no try/catch, the failure of new URL escapes
CatchNormalizeRethrow(t) == t

\* catch (error) { log(...); return ''; }
CatchNormalize(t) == IF t.thrown THEN Returned(<<>>) ELSE t

normalizeUrl(url, baseUrl) == CatchNormalize(TryNormalize(url, baseUrl))
normalizeUrlData(url, baseUrl) == CatchNormalize(TryNormalizeData(url, baseUrl))

\* the two normalizeUrl of the repository
Versions == {"crawler.ts", "part_010"}
Normalizer(fn, url, baseUrl) ==
    IF fn = "part_010" THEN normalizeUrlData(url, baseUrl)
    ELSE normalizeUrl(url, baseUrl)

\* the callback findRecipeLinks maps over the anchors: the normalized URL, or
\* null (the empty sequence here, which filter(Boolean) drops like '')
MapLink(href, baseUrl) ==
    IF ~Truthy(href) THEN <<>>
    ELSE LET n == normalizeUrl(href.s, baseUrl)
             normalizedUrl == n.value
         IN IF n.thrown THEN <<>>            \* catch (e) { return null; }
            ELSE IF normalizedUrl = <<>> THEN <<>>
            ELSE IF \/ Includes(normalizedUrl, RECIPE)
                    \/ Includes(normalizedUrl, RECIPES)
                    \/ Includes(normalizedUrl, CASTIRON)
                 THEN normalizedUrl
                 ELSE <<>>

\* findRecipeLinks on the href values of the anchors the selector matched
ValidLinks(hrefs, baseUrl) ==
    SelectSeq([i \in 1..Len(hrefs) |-> MapLink(hrefs[i], baseUrl)],
              LAMBDA v : v # <<>>)

\* the candidates: optional whitespace, a prefix, a rest, optional whitespace
Prefixes == { <<>>, HTTP, HTTPS, FTP, DATA, Slashes, <<"/">> }
Rests ==
    { <<>>, <<"a">>, <<"a", "/", "c">>, <<"a", " ", "c", " ", "e">>,
      <<"a">> \o RECIPE }
Pads == { <<>>, <<" ">> }
Candidates ==
    { a \o p \o m \o z : a \in Pads, p \in Prefixes, m \in Rests, z \in Pads }

\* the bases: two that parse (one with a port), three that do not
Bases ==
    { HTTPS \o <<"a", "/", "c", "/", "d">>, HTTP \o <<"a", ":", "8", "/", "c">>,
      <<>>, <<"a">>, HTTPS }

\* the href values of the anchors of a page
Anchors ==
    { Undefined, Str(<<>>), Str(<<" ">>), Str(RECIPE \o <<"/", "a">>),
      Str(<<"r", "e", "c", "i", "p", "e">>), Str(<<"/", "a">>),
      Str(HTTP \o <<"a">> \o RECIPES) }

InitUrl ==
    /\ recipes = <<>>
    /\ crawlerConfigs = [id \in Sites |->
                            [siteName |-> SiteName(id), siteUrl |-> SiteUrl(id),
                             enabled |-> TRUE, lastCrawl |-> 0]]
    /\ web = [id \in Sites |-> <<>>]
    /\ run = [r \in Triggers |-> IdleRun]
    /\ started = 0
    /\ runLog = <<>>
    /\ injected = 0
    /\ xpage = EmptyPage
    /\ xresult = NoResult
    /\ handler = "background"
    /\ analysis = IdleAnalysis
    /\ res = NoReply
    /\ \E baseUrl \in Bases :
         \/ \E fn \in Versions, url \in Candidates :
               ucall = [fn |-> fn, url |-> url, baseUrl |-> baseUrl, hrefs |-> <<>>]
         \/ \E h1, h2 \in Anchors :
               ucall = [fn |-> "findRecipeLinks", url |-> <<>>, baseUrl |-> baseUrl,
                        hrefs |-> <<h1, h2>>]
    /\ uresult = NoCalls

\* normalizeUrl(url, baseUrl) is called
Normalize ==
    /\ ucall.fn \in Versions /\ Len(uresult) = 0
    /\ uresult' = <<Normalizer(ucall.fn, ucall.url, ucall.baseUrl)>>
    /\ UNCHANGED <<recipes, crawlerConfigs, web, run, started, runLog, injected, xpage,
                   xresult, handler, analysis, res, ucall>>

\* normalizeUrl is called on what the first call returned, with the same base
NormalizeAgain ==
    /\ ucall.fn \in Versions /\ Len(uresult) = 1
    /\ ~uresult[1].thrown
    /\ uresult' = Append(uresult, Normalizer(ucall.fn, uresult[1].value, ucall.baseUrl))
    /\ UNCHANGED <<recipes, crawlerConfigs, web, run, started, runLog, injected, xpage,
                   xresult, handler, analysis, res, ucall>>

\* findRecipeLinks(document, selector, baseUrl) is called
FindLinks ==
    /\ ucall.fn = "findRecipeLinks" /\ Len(uresult) = 0
    /\ uresult' = <<Returned(ValidLinks(ucall.hrefs, ucall.baseUrl))>>
    /\ UNCHANGED <<recipes, crawlerConfigs, web, run, started, runLog, injected, xpage,
                   xresult, handler, analysis, res, ucall>>

NextUrl == Normalize \/ NormalizeAgain \/ FindLinks

SpecUrl == InitUrl /\ [][NextUrl]_vars

----------------------------------------------------------------------------
(* parseTimeToMinutes of part_010 on strings, and the texts it is given    *)

Digits == <<"0", "1", "2", "3", "4", "5", "6", "7", "8", "9">>
UpperCase ==
    <<"A", "B", "C", "D", "E", "F", "G", "H", "I", "J", "K", "L", "M",
      "N", "O", "P", "Q", "R", "S", "T", "U", "V", "W", "X", "Y", "Z">>
LowerCase ==
    <<"a", "b", "c", "d", "e", "f", "g", "h", "i", "j", "k", "l", "m",
      "n", "o", "p", "q", "r", "s", "t", "u", "v", "w", "x", "y", "z">>

\* \d
IsDigit(c) == \E i \in 1..Len(Digits) : Digits[i] = c

\* the value of one digit
DigitValue(c) == (CHOOSE i \in 1..Len(Digits) : Digits[i] = c) - 1

\* String.prototype.toLowerCase
toLowerCase(s) ==
    [i \in 1..Len(s) |->
        IF \E k \in 1..Len(UpperCase) : UpperCase[k] = s[i]
        THEN LowerCase[CHOOSE k \in 1..Len(UpperCase) : UpperCase[k] = s[i]]
        ELSE s[i]]

\* parseInt of a run of digits
RECURSIVE parseInt(_)
parseInt(ds) ==
    IF ds = <<>> THEN 0
    ELSE 10 * parseInt(SubSeq(ds, 1, Len(ds) - 1)) + DigitValue(ds[Len(ds)])

\* the last index of the run of digits that starts at i
RECURSIVE RunEnd(_, _)
RunEnd(s, i) == IF i < Len(s) /\ IsDigit(s[i + 1]) THEN RunEnd(s, i + 1) ELSE i

\* the index of the first character at or after i that is not whitespace
RECURSIVE SkipSpace(_, _)
SkipSpace(s, i) ==
    IF i <= Len(s) /\ s[i] \in Whitespace THEN SkipSpace(s, i + 1) ELSE i

\* /(\d+)\s*c.../i matches at index i: a run of digits, optional whitespace,
\* then the letter c in either case (what follows c in the pattern is
\* optional and decides neither the match nor its first group)
MatchesAt(s, i, c) ==
    /\ IsDigit(s[i])
    /\ LET k == SkipSpace(s, RunEnd(s, i) + 1)
       IN k <= Len(s) /\ toLowerCase(<<s[k]>>) = <<c>>

\* no match
NoMatch == [found |-> FALSE, group |-> <<>>]

\* timeStr.match(/(\d+)\s*c.../i): the first group of the leftmost match
MatchNumberBefore(s, c) ==
    IF \E i \in 1..Len(s) : MatchesAt(s, i, c)
    THEN LET i == CHOOSE i \in 1..Len(s) :
                     MatchesAt(s, i, c) /\ \A j \in 1..(i - 1) : ~MatchesAt(s, j, c)
         IN [found |-> TRUE, group |-> SubSeq(s, i, RunEnd(s, i))]
    ELSE NoMatch

\* timeStr.match(/\d+/)
MatchNumber(s) ==
    IF \E i \in 1..Len(s) : IsDigit(s[i])
    THEN LET i == CHOOSE i \in 1..Len(s) :
                     IsDigit(s[i]) /\ \A j \in 1..(i - 1) : ~IsDigit(s[j])
         IN [found |-> TRUE, group |-> SubSeq(s, i, RunEnd(s, i))]
    ELSE NoMatch

\* mutant of JustNumber: a number without a unit is not read as minutes
JustNumberIgnored(hours, minutes, timeStr) == 0

\* if (!hours && !minutes) { const justNumber = timeStr.match(/\d+/); ... }
JustNumber(hours, minutes, timeStr) ==
    IF ~hours.found /\ ~minutes.found /\ MatchNumber(timeStr).found
    THEN parseInt(MatchNumber(timeStr).group)
    ELSE 0

\* parseTimeToMinutes(timeStr)
parseTimeToMinutes(timeStr) ==
    LET hours == MatchNumberBefore(timeStr, "h")
        minutes == MatchNumberBefore(timeStr, "m")
        totalMinutes ==
            (IF hours.found THEN parseInt(hours.group) * 60 ELSE 0)
            + (IF minutes.found THEN parseInt(minutes.group) ELSE 0)
    IN IF ~hours.found /\ ~minutes.found
       THEN JustNumber(hours, minutes, timeStr)
       ELSE totalMinutes

\* the numbers a time text may hold: the digits written and their value
Amounts ==
    { [text |-> <<"1">>, value |-> 1], [text |-> <<"2">>, value |-> 2],
      [text |-> <<"3", "0">>, value |-> 30], [text |-> <<"4", "5">>, value |-> 45],
      [text |-> <<"1", "0", "5">>, value |-> 105] }

\* no number, no unit
Nothing == [text |-> <<>>, value |-> 0]

\* the ways a page writes the hour unit and the minute unit
HourTokens ==
    { <<" ", "h", "o", "u", "r">>,
      <<" ", "h", "o", "u", "r", "s">>,
      <<" ", "h", "r">>,
      <<"h">>,
      <<" ", "H", "R">>,
      <<" ", "H", "o", "u", "r", "s">> }
MinuteTokens ==
    { <<" ", "m", "i", "n", "u", "t", "e", "s">>,
      <<" ", "m", "i", "n", "u", "t", "e">>,
      <<" ", "m", "i", "n">>,
      <<"m">>,
      <<" ", "M", "i", "n">>,
      <<" ", "M", "I", "N", "S">> }

\* words without digits that may precede the time
Leads == { <<>>, <<"t", "b", "d">>, <<"a", "b", "o", "u", "t">> }

\* a time text: a lead, then nothing or an amount of hours with its unit,
\* then nothing or an amount of minutes with its unit or with none, trimmed
\* as crawlRecipe trims the text of the element
TimeText(lead, h, hourToken, m, minuteToken) ==
    trim(lead \o <<" ">> \o h.text \o hourToken \o <<" ">> \o m.text \o minuteToken)

TimeCalls ==
    { [fn |-> "parseTimeToMinutes", lead |-> lead, hours |-> hp[1], hourToken |-> hp[2],
       minutes |-> mp[1], minuteToken |-> mp[2],
       timeStr |-> TimeText(lead, hp[1], hp[2], mp[1], mp[2])] :
         lead \in Leads,
         hp \in {<<Nothing, <<>> >>} \cup (Amounts \X HourTokens),
         mp \in {<<Nothing, <<>> >>} \cup (Amounts \X (MinuteTokens \cup {<<>>})) }

InitTime ==
    /\ recipes = <<>>
    /\ crawlerConfigs = [id \in Sites |->
                            [siteName |-> SiteName(id), siteUrl |-> SiteUrl(id),
                             enabled |-> TRUE, lastCrawl |-> 0]]
    /\ web = [id \in Sites |-> <<>>]
    /\ run = [r \in Triggers |-> IdleRun]
    /\ started = 0
    /\ runLog = <<>>
    /\ injected = 0
    /\ xpage = EmptyPage
    /\ xresult = NoResult
    /\ handler = "background"
    /\ analysis = IdleAnalysis
    /\ res = NoReply
    /\ ucall \in TimeCalls
    /\ uresult = NoCalls

\* parseTimeToMinutes(timeStr) is called
ParseTime ==
    /\ ucall.fn = "parseTimeToMinutes" /\ Len(uresult) = 0
    /\ uresult' = <<Returned(parseTimeToMinutes(ucall.timeStr))>>
    /\ UNCHANGED <<recipes, crawlerConfigs, web, run, started, runLog, injected, xpage,
                   xresult, handler, analysis, res, ucall>>

NextTime == ParseTime

SpecTime == InitTime /\ [][NextTime]_vars

----------------------------------------------------------------------------
(* crawlRecipe and the insert of runCrawler in part_010, where the         *)
(* extraction also reads the times, the difficulty and the servings of the *)
(* page, next to those of crawler.ts, where it does not.  The image URL    *)
(* that part_010 adds (findImageUrl) is left out of the record.            *)

\* the time a selector of part_010 yields: the minutes parsed from the text
\* of the first matching element when they are positive, else the initial 0
DetectTime(els) ==
    IF els = <<>> \/ trim(Head(els)) = <<>> THEN 0
    ELSE LET minutes == parseTimeToMinutes(trim(Head(els)))
         IN IF minutes > 0 THEN minutes ELSE 0

\* the difficulty: "medium" unless the lowercased text says otherwise
DetectDifficulty(els) ==
    IF els = <<>> \/ trim(Head(els)) = <<>> THEN "medium"
    ELSE LET difficultyText == toLowerCase(trim(Head(els)))
         IN IF Includes(difficultyText, <<"e", "a", "s", "y">>) \/ Includes(difficultyText, <<"b", "e", "g", "i", "n", "n", "e", "r">>)
            THEN "easy"
            ELSE IF Includes(difficultyText, <<"h", "a", "r", "d">>)
                    \/ Includes(difficultyText, <<"a", "d", "v", "a", "n", "c", "e", "d">>)
                 THEN "hard"
                 ELSE "medium"

\* the servings: the first integer of the text, else the initial 4
DetectServings(els) ==
    IF els = <<>> \/ trim(Head(els)) = <<>> THEN DefaultServings
    ELSE LET servingsMatch == MatchNumber(trim(Head(els)))
         IN IF servingsMatch.found THEN parseInt(servingsMatch.group)
            ELSE DefaultServings

\* .filter(text => !!text && text.length > 5) of the instructions in part_010
LongInstruction(text) == Len(text) > 5

\* crawlRecipe of part_010 from the parsed document on: the record, or null
ExtractRecipeDetected(url, page) ==
    LET title == QueryText(page.title)
        description == OrElse(QueryText(page.description), QueryText(page.metaDescription))
        ingredients == SelectSeq(QueryAllText(page.ingredients), LongEnough)
        instructions == SelectSeq(QueryAllText(page.instructions), LongInstruction)
    IN IF MissingRequired(title, description, ingredients, instructions)
       THEN NoRecipe
       ELSE [isNull |-> FALSE, title |-> title.s, description |-> description.s,
             ingredients |-> ingredients, instructions |-> instructions,
             prepTime |-> DetectTime(page.prepTime),
             cookTime |-> DetectTime(page.cookTime),
             difficulty |-> DetectDifficulty(page.difficulty),
             servings |-> DetectServings(page.servings),
             sourceUrl |-> url]

\* Array.from(new Set(values)): every value once, in the order of the first
\* occurrences
RECURSIVE Distinct(_)
Distinct(values) ==
    IF values = <<>> THEN <<>>
    ELSE LET front == Distinct(SubSeq(values, 1, Len(values) - 1))
             last == values[Len(values)]
         IN IF \E i \in 1..Len(front) : front[i] = last THEN front
            ELSE Append(front, last)

\* mutant of IngredientsSet: the texts are collected in an array
IngredientsArray(texts) == texts

\* ingredientsSet.add(text) for each text, then Array.from(ingredientsSet)
IngredientsSet(texts) == Distinct(texts)

\* /^(step|[0-9]+\.?)$/i.test(text): the text is the word "step", or digits
\* with at most one dot after them
StepMarker(text) ==
    \/ toLowerCase(text) = <<"s", "t", "e", "p">>
    \/ /\ text # <<>> /\ IsDigit(text[1])
       /\ LET end == RunEnd(text, 1)
          IN end = Len(text) \/ (end = Len(text) - 1 /\ text[Len(text)] = ".")

\* the filter of the instructions in part_007
ValidInstruction(text) == Len(text) > 5 /\ ~StepMarker(text)

\* crawlRecipe of part_007 from the parsed document on: the record, or null
ExtractRecipeDeduplicated(url, page) ==
    LET title == QueryText(page.title)
        description == OrElse(QueryText(page.description), QueryText(page.metaDescription))
        ingredients ==
            IngredientsSet(SelectSeq(QueryAllText(page.ingredients), LongEnough))
        instructions == SelectSeq(QueryAllText(page.instructions), ValidInstruction)
    IN IF MissingRequired(title, description, ingredients, instructions)
       THEN NoRecipe
       ELSE [isNull |-> FALSE, title |-> title.s, description |-> description.s,
             ingredients |-> ingredients, instructions |-> instructions,
             sourceUrl |-> url]

\* the revisions of crawlRecipe and of the insert that follows it
Revisions == {"crawler.ts", "part_007", "part_010"}

\* the row runCrawler of part_010 writes:
\* { ...recipeData, cookwareType: "skillet", sourceName: config.siteName }
RecipeRowSpread(recipeData, siteName) ==
    [title |-> recipeData.title, description |-> recipeData.description,
     ingredients |-> recipeData.ingredients, instructions |-> recipeData.instructions,
     sourceUrl |-> recipeData.sourceUrl, cookwareType |-> "skillet",
     difficulty |-> recipeData.difficulty, prepTime |-> recipeData.prepTime,
     cookTime |-> recipeData.cookTime, servings |-> recipeData.servings,
     sourceName |-> siteName]

\* crawlRecipe and the row of the insert, per revision
CrawlRecipeOf(version, url, page) ==
    IF version = "part_010" THEN ExtractRecipeDetected(url, page)
    ELSE IF version = "part_007" THEN ExtractRecipeDeduplicated(url, page)
    ELSE ExtractRecipe(url, page)
RecipeRowOf(version, recipeData, siteName) ==
    IF version = "part_010" THEN RecipeRowSpread(recipeData, siteName)
    ELSE RecipeRow(recipeData, siteName)

\* what the selectors of the times, the difficulty and the servings match
PrepTimeEls ==
    { <<>>, << <<"t", "b", "d">> >>, << <<" ", "4", "5", " ", "m", "i", "n", " ">> >>, << <<"1", " ", "h", "o", "u", "r", " ", "3", "0", " ", "m", "i", "n", "u", "t", "e", "s">> >>,
      << <<"0", " ", "m", "i", "n">> >> }
CookTimeEls == { <<>>, << <<"2", " ", "h", "r">> >>, << <<"s", "o", "o", "n">> >> }
DifficultyEls ==
    { <<>>, << <<"E", "a", "s", "y">> >>, << <<"f", "o", "r", " ", "A", "d", "v", "a", "n", "c", "e", "d", " ", "c", "o", "o", "k", "s">> >>, << <<"m", "o", "d", "e", "r", "a", "t", "e">> >> }
ServingsEls == { <<>>, << <<"S", "e", "r", "v", "e", "s", " ", "6">> >>, << <<"a", " ", "f", "e", "w">> >> }

\* a detail page that both revisions can extract, and one without a title
CompletePage ==
    [EmptyPage EXCEPT !.title = << <<" ", "x">> >>,
                      !.description = << <<"y">> >>,
                      !.ingredients = << <<"x", "y">>, <<"x">> >>,
                      !.instructions = << <<"x", "y", "x", "y", "x", "y">> >>]
UntitledPage == [CompletePage EXCEPT !.title = <<>>]

\* a page that repeats an ingredient and a step, and numbers its steps
RepeatingPage ==
    [CompletePage EXCEPT
        !.ingredients = << <<"x", "y">>, <<" ", "x", "y", " ">>, <<"y", "x">>,
                           <<"x", "y">> >>,
        !.instructions = << <<"1", ".">>, <<"x", "y", "x", "y", "x", "y">>,
                            <<"1", "2", "3", "4", "5", "6">>,
                            <<"x", "y", "x", "y", "x", "y">> >>]

DetailPages ==
    { [title |-> p.title, h1 |-> p.h1, description |-> p.description,
       metaDescription |-> p.metaDescription, recipeSummary |-> p.recipeSummary,
       itempropDescription |-> p.itempropDescription, ingredients |-> p.ingredients,
       instructions |-> p.instructions, alternatives |-> p.alternatives,
       prepTime |-> pt, cookTime |-> ct, difficulty |-> d, servings |-> sv] :
         p \in {CompletePage, UntitledPage, RepeatingPage}, pt \in PrepTimeEls, ct \in CookTimeEls,
         d \in DifficultyEls, sv \in ServingsEls }

InitDetail ==
    /\ recipes = <<>>
    /\ crawlerConfigs = [id \in Sites |->
                            [siteName |-> SiteName(id), siteUrl |-> SiteUrl(id),
                             enabled |-> TRUE, lastCrawl |-> 0]]
    /\ web = [id \in Sites |-> <<>>]
    /\ run = [r \in Triggers |-> IdleRun]
    /\ started = 0
    /\ runLog = <<>>
    /\ injected = 0
    /\ xpage \in DetailPages
    /\ xresult = NoResult
    /\ handler = "background"
    /\ analysis = IdleAnalysis
    /\ res = NoReply
    /\ \E version \in Revisions : ucall = [fn |-> "crawlRecipe", version |-> version]
    /\ uresult = NoCalls

\* const recipeData = await crawlRecipe(link, selectors), the page fetched
CrawlDetail ==
    /\ ucall.fn = "crawlRecipe" /\ ~xresult.done
    /\ xresult' = [done |-> TRUE, recipe |-> CrawlRecipeOf(ucall.version, R1, xpage)]
    /\ UNCHANGED <<recipes, crawlerConfigs, web, run, started, runLog, injected, xpage,
                   handler, analysis, res, ucall, uresult>>

\* if (recipeData) and no row with its title and source exists: the insert
PersistDetail ==
    /\ ucall.fn = "crawlRecipe" /\ xresult.done /\ ~xresult.recipe.isNull
    /\ ~ExistingRecipe(recipes, xresult.recipe.title, SiteName(1))
    /\ recipes' = Append(recipes, RecipeRowOf(ucall.version, xresult.recipe, SiteName(1)))
    /\ UNCHANGED <<crawlerConfigs, web, run, started, runLog, injected, xpage, xresult,
                   handler, analysis, res, ucall, uresult>>

NextDetail == CrawlDetail \/ PersistDetail

SpecDetail == InitDetail /\ [][NextDetail]_vars

----------------------------------------------------------------------------
(* findRecipeLinks in its revisions: crawler.ts (ValidLinks above) keeps   *)
(* every anchor whose URL holds '/recipe', '/recipes' or 'cast-iron';      *)
(* part_010 and part_006 collect the URLs in a Set and test the lowercased *)
(* URL for keywords, part_006 also for digits.                             *)

\* normalizedUrl.toLowerCase().includes('recipe') || ...includes('recipes')
IsRecipeUrlWords(normalizedUrl) ==
    \/ Includes(toLowerCase(normalizedUrl), <<"r", "e", "c", "i", "p", "e">>)
    \/ Includes(toLowerCase(normalizedUrl), <<"r", "e", "c", "i", "p", "e", "s">>)

\* /\d{4}|\d{2}/.test(normalizedUrl): four digits in a row, or two
TwoDigitsInARow(s) ==
    \/ \E i \in 1..(Len(s) - 3) : \A k \in 0..3 : IsDigit(s[i + k])
    \/ \E i \in 1..(Len(s) - 1) : IsDigit(s[i]) /\ IsDigit(s[i + 1])

\* isRecipeUrl of part_006
IsRecipeUrlHeuristic(normalizedUrl) ==
    \/ IsRecipeUrlWords(normalizedUrl)
    \/ Includes(toLowerCase(normalizedUrl), <<"c", "o", "o", "k", "i", "n", "g">>)
    \/ Includes(toLowerCase(normalizedUrl), <<"f", "o", "o", "d">>)
    \/ TwoDigitsInARow(normalizedUrl)

\* one iteration of the loop over the anchors in part_010 and part_006: the
\* URL added to validLinks, or nothing (the empty sequence)
AddLink(version, href, baseUrl) ==
    IF ~Truthy(href) THEN <<>>
    ELSE LET n == normalizeUrlData(href.s, baseUrl)
             normalizedUrl == n.value
         IN IF n.thrown \/ normalizedUrl = <<>> THEN <<>>
            ELSE IF version = "part_006" /\ IsRecipeUrlHeuristic(normalizedUrl)
                 THEN normalizedUrl
            ELSE IF version = "part_010" /\ IsRecipeUrlWords(normalizedUrl)
                 THEN normalizedUrl
            ELSE <<>>

\* findRecipeLinks of part_010 and part_006: Array.from(validLinks)
ValidLinksSet(version, hrefs, baseUrl) ==
    Distinct(SelectSeq([i \in 1..Len(hrefs) |-> AddLink(version, hrefs[i], baseUrl)],
                       LAMBDA v : v # <<>>))

\* the revisions of findRecipeLinks
LinkRevisions == {"crawler.ts", "part_006", "part_010"}
FindRecipeLinksOf(version, hrefs, baseUrl) ==
    IF version = "crawler.ts" THEN ValidLinks(hrefs, baseUrl)
    ELSE ValidLinksSet(version, hrefs, baseUrl)

\* the listing page of https://site.com/ and the href values of its anchors
SiteBase == <<"h", "t", "t", "p", "s", ":", "/", "/", "s", "i", "t", "e", ".", "c", "o", "m", "/">>
BananaRecipe == <<"h", "t", "t", "p", "s", ":", "/", "/", "s", "i", "t", "e", ".", "c", "o", "m", "/", "b", "l", "o", "g", "/", "2", "0", "2", "4", "-", "b", "a", "n", "a", "n", "a", "-", "s", "k", "i", "l", "l", "e", "t", "-", "r", "e", "c", "i", "p", "e">>
AboutPage == <<"h", "t", "t", "p", "s", ":", "/", "/", "s", "i", "t", "e", ".", "c", "o", "m", "/", "a", "b", "o", "u", "t">>
ListingAnchors ==
    { Undefined, Str(BananaRecipe), Str(AboutPage), Str(<<"/", "r", "e", "c", "i", "p", "e", "s", "/", "1">>),
      Str(<<" ", "/", "r", "e", "c", "i", "p", "e", "s", "/", "1", " ">>), Str(<<"h", "t", "t", "p", "s", ":", "/", "/", "s", "i", "t", "e", ".", "c", "o", "m", "/", "r", "e", "c", "i", "p", "e", "s", "/", "1">>),
      Str(<<"/", "C", "o", "o", "k", "i", "n", "g", "/", "t", "i", "p", "s">>), Str(<<"/", "p", "/", "1", "2">>), Str(<<"/", "p", "/", "7">>), Str(<<"/", "s", "e", "a", "f", "o", "o", "d">>) }

InitLinks ==
    /\ recipes = <<>>
    /\ crawlerConfigs = [id \in Sites |->
                            [siteName |-> SiteName(id), siteUrl |-> SiteUrl(id),
                             enabled |-> TRUE, lastCrawl |-> 0]]
    /\ web = [id \in Sites |-> <<>>]
    /\ run = [r \in Triggers |-> IdleRun]
    /\ started = 0
    /\ runLog = <<>>
    /\ injected = 0
    /\ xpage = EmptyPage
    /\ xresult = NoResult
    /\ handler = "background"
    /\ analysis = IdleAnalysis
    /\ res = NoReply
    /\ \E version \in LinkRevisions, h1, h2, h3 \in ListingAnchors :
          ucall = [fn |-> "findRecipeLinks", version |-> version, baseUrl |-> SiteBase,
                   hrefs |-> <<h1, h2, h3>>]
    /\ uresult = NoCalls

\* findRecipeLinks(document, selector, baseUrl) of the revision is called
FindRecipeLinks ==
    /\ ucall.fn = "findRecipeLinks" /\ Len(uresult) = 0
    /\ uresult' =
          <<Returned(FindRecipeLinksOf(ucall.version, ucall.hrefs, ucall.baseUrl))>>
    /\ UNCHANGED <<recipes, crawlerConfigs, web, run, started, runLog, injected, xpage,
                   xresult, handler, analysis, res, ucall>>

NextLinks == FindRecipeLinks

SpecLinks == InitLinks /\ [][NextLinks]_vars

----------------------------------------------------------------------------
(* analyzeWebsite of crawler.ts and of part_010.  The analyzed site is the *)
(* record of what the candidate patterns match in its page: per pattern    *)
(* the hrefs of the matched anchors in document order, and whether any of  *)
(* them has text.  The selectors other than recipeLinks and the site name  *)
(* derived from the host play no part here and are left out.               *)

\* patterns.recipeLinks of crawler.ts and linkSelectors of part_010
LinkPatterns(version) ==
    IF version = "part_010"
    THEN <<"a[href*='recipe']", "a[href*='recipes']", ".recipe-card a", ".recipe-link",
           "[class*='recipe'] a">>
    ELSE <<"a[href*='recipe']", "a[href*='recipes']", ".recipe-card a", ".recipe-link",
           ".recipe-preview a", "article.recipe a", "[class*='recipe'] a",
           "a[class*='recipe']">>

\* document.querySelectorAll(selector) on the analyzed page
Matched(site, selector) ==
    IF selector \in DOMAIN site.els THEN site.els[selector] ELSE <<>>

\* elements.length > 0 && Array.from(elements).some(el => el.textContent?.trim())
MatchesWithText(site, selector) ==
    Len(Matched(site, selector)) > 0 /\ site.withText[selector]

\* findFirstMatch(document, selectors) of crawler.ts: the first pattern that
\* matches an element with text, else the first pattern
findFirstMatch(site, selectors) ==
    IF \E i \in 1..Len(selectors) : MatchesWithText(site, selectors[i])
    THEN selectors[CHOOSE i \in 1..Len(selectors) :
                      /\ MatchesWithText(site, selectors[i])
                      /\ \A j \in 1..(i - 1) : ~MatchesWithText(site, selectors[j])]
    ELSE selectors[1]

\* the loop of part_010 over linkSelectors with `links.length > maxLinks`,
\* then `bestLinkSelector || linkSelectors[0]`: the first of the patterns
\* that match the most elements
BestLinkSelector(site, selectors) ==
    selectors[CHOOSE i \in 1..Len(selectors) :
                 /\ \A j \in 1..Len(selectors) :
                       Len(Matched(site, selectors[j])) <= Len(Matched(site, selectors[i]))
                 /\ \A j \in 1..(i - 1) :
                       Len(Matched(site, selectors[j])) < Len(Matched(site, selectors[i]))]

\* selectors.recipeLinks of the suggested configuration
SuggestedLinkSelector(version, site) ==
    IF version = "part_010" THEN BestLinkSelector(site, LinkPatterns(version))
    ELSE findFirstMatch(site, LinkPatterns(version))

\* findRecipeLinks(document, selectors.recipeLinks, url), on the URLs of the
\* crawled world: part_010 returns each link once
SampleLinks(version, site, selector) ==
    IF version = "part_010" THEN Distinct(findRecipeLinks(Matched(site, selector)))
    ELSE findRecipeLinks(Matched(site, selector))

\* a page with no element for the times, the difficulty and the servings
Undetected(page) ==
    [f \in DOMAIN page \cup {"prepTime", "cookTime", "difficulty", "servings"} |->
        IF f \in DOMAIN page THEN page[f] ELSE <<>>]

\* the detail pages behind the links of an analyzed site
AnalyzedPageAt(url) ==
    IF url = R4 THEN Undetected(CompletePage) ELSE Undetected(PageAt(url))

\* mutant of RecipesAfterAnalysis: the sample is saved as a crawled recipe
RecipesWithSample(rows, sampleRecipe) ==
    IF sampleRecipe.isNull THEN rows
    ELSE Append(rows, RecipeRow(sampleRecipe, "Analyzed"))

\* the recipes table when analyzeWebsite returns: the function holds no
\* statement on db, the sample goes to the caller only
RecipesAfterAnalysis(rows, sampleRecipe) == rows

\* return { suggestedConfig, sampleData }
AnalysisReturn(a) == [a EXCEPT !.pc = "returned", !.stage = "none", !.lastFetch = NoFetch]

\* catch (error) { log(...); throw error; } of analyzeWebsite
AnalysisCatch(a) == [a EXCEPT !.pc = "raised", !.stage = "none", !.lastFetch = NoFetch]

\* the anchors a pattern may match: none, three, twelve, three that lead to
\* no recipe
ThreeAnchors == <<R4, About, R1>>
TwelveAnchors == [i \in 1..12 |-> IF i = 1 THEN R3 ELSE IF i % 2 = 0 THEN R1 ELSE R4]
NoRecipeAnchors == <<About, About, About>>
AnchorLists == { <<>>, ThreeAnchors, TwelveAnchors, NoRecipeAnchors }

\* the two patterns that match anything in the analyzed pages
PatternA == "a[href*='recipe']"
PatternB == ".recipe-card a"

AnalyzedSites ==
    [els : [{PatternA, PatternB} -> AnchorLists],
     withText : [{PatternA, PatternB} -> BOOLEAN]]

InitAnalyze ==
    /\ recipes \in InitialStores
    /\ crawlerConfigs = [id \in Sites |->
                            [siteName |-> SiteName(id), siteUrl |-> SiteUrl(id),
                             enabled |-> TRUE, lastCrawl |-> 0]]
    /\ web = [id \in Sites |-> <<>>]
    /\ run = [r \in Triggers |-> IdleRun]
    /\ started = 0
    /\ runLog = <<>>
    /\ injected = 0
    /\ xpage = EmptyPage
    /\ xresult = NoResult
    /\ handler = "background"
    /\ \E version \in Versions, site \in AnalyzedSites :
          analysis = [IdleAnalysis EXCEPT !.version = version, !.site = site]
    /\ res = NoReply
    /\ ucall = NoCall
    /\ uresult = NoCalls

\* analyzeWebsite(url) is called: fetchWithRetry(url) begins
AnalyzeCall ==
    /\ analysis.pc = "idle"
    /\ analysis' = [analysis EXCEPT !.pc = "fetch", !.stage = "site", !.attempt = 1]
    /\ UNCHANGED <<recipes, crawlerConfigs, web, run, started, runLog, injected, xpage,
                   xresult, handler, res, ucall, uresult>>

\* one attempt of fetchWithRetry, for the analyzed page or for the sample:
\* a throw for the analyzed page is rethrown by analyzeWebsite, a throw for
\* the sample is caught inside crawlRecipe, which returns null
AnalyzeFetch ==
    /\ analysis.pc = "fetch"
    /\ \E o \in Outcomes :
          LET a == fetchAttempt(analysis, o)
          IN /\ analysis' =
                   IF a.pc # "thrown" THEN a
                   ELSE IF a.stage = "site" THEN AnalysisCatch(a)
                   ELSE AnalysisReturn([a EXCEPT !.sampleRecipe = NoRecipe])
             /\ recipes' =
                   IF a.pc = "thrown" /\ a.stage = "sample"
                   THEN RecipesAfterAnalysis(recipes, NoRecipe)
                   ELSE recipes
    /\ UNCHANGED <<crawlerConfigs, web, run, started, runLog, injected, xpage,
                   xresult, handler, res, ucall, uresult>>

\* await delay(1000 * attempt) has elapsed
AnalyzeBackoff ==
    /\ analysis.pc = "backoff"
    /\ analysis' = [analysis EXCEPT !.pc = "fetch", !.attempt = @ + 1, !.timer = 0]
    /\ UNCHANGED <<recipes, crawlerConfigs, web, run, started, runLog, injected, xpage,
                   xresult, handler, res, ucall, uresult>>

\* the page is parsed, the selectors are chosen and findRecipeLinks has
\* returned: crawlRecipe(links[0], selectors) begins, or there is no link
AnalyzeSelect ==
    /\ analysis.pc = "parse" /\ analysis.stage = "site"
    /\ LET selector == SuggestedLinkSelector(analysis.version, analysis.site)
           links == SampleLinks(analysis.version, analysis.site, selector)
           a == [analysis EXCEPT !.recipeLinks = selector, !.links = links,
                                 !.response = NoResponse, !.lastFetch = NoFetch]
       IN /\ analysis' =
                IF Len(links) > 0
                THEN [a EXCEPT !.pc = "fetch", !.stage = "sample", !.attempt = 1]
                ELSE AnalysisReturn(a)
          /\ recipes' =
                IF Len(links) > 0 THEN recipes
                ELSE RecipesAfterAnalysis(recipes, NoRecipe)
    /\ UNCHANGED <<crawlerConfigs, web, run, started, runLog, injected, xpage,
                   xresult, handler, res, ucall, uresult>>

\* crawlRecipe has extracted the sample, or null: analyzeWebsite returns
AnalyzeSample ==
    /\ analysis.pc = "parse" /\ analysis.stage = "sample"
    /\ LET url == analysis.links[1]
           sampleRecipe == CrawlRecipeOf(analysis.version, url, AnalyzedPageAt(url))
       IN /\ analysis' =
                AnalysisReturn([analysis EXCEPT !.sampleRecipe = sampleRecipe,
                                                !.response = NoResponse])
          /\ recipes' = RecipesAfterAnalysis(recipes, sampleRecipe)
    /\ UNCHANGED <<crawlerConfigs, web, run, started, runLog, injected, xpage,
                   xresult, handler, res, ucall, uresult>>

NextAnalyze ==
    AnalyzeCall \/ AnalyzeFetch \/ AnalyzeBackoff \/ AnalyzeSelect \/ AnalyzeSample

SpecAnalyze == InitAnalyze /\ [][NextAnalyze]_vars

----------------------------------------------------------------------------
(* Properties                                                              *)

\* the sites of the configurations an invocation has loaded
ConfigSet(rr) == { rr.configs[i] : i \in 1..Len(rr.configs) }

\* the step is the one in which the fetchWithRetry call of invocation r,
\* made for `stage`, completes by throwing
FetchThrows(r, stage) ==
    /\ run[r].pc = "fetch" /\ run[r].stage = stage
    /\ run'[r] # run[r]
    /\ run'[r].lastFetch.result = "thrown"

\* two rows of the table share (title, sourceName)
HasDuplicateRows ==
    \E i, j \in 1..Len(recipes) :
        /\ i # j
        /\ recipes[i].title = recipes[j].title
        /\ recipes[i].sourceName = recipes[j].sourceName

\* C1: when the listing fetch of a site fails terminally, runCrawler does not
\* raise and writes nothing: it goes on to the listing fetch of the next
\* configuration, or returns if the site was the last; a run that returns has
\* issued the listing fetch of every configuration it loaded, and a run raises
\* only before it has loaded any.
C1_ListingFailureSkipsSite ==
    /\ [](\A r \in Triggers :
            /\ run[r].pc = "returned" => run[r].visited = ConfigSet(run[r])
            /\ run[r].pc = "raised" => run[r].siteIdx = 0 /\ run[r].visited = {})
    /\ [][\A r \in Triggers :
            FetchThrows(r, "listing") =>
               /\ run'[r].error = NoError
               /\ recipes' = recipes /\ crawlerConfigs' = crawlerConfigs
               /\ IF run[r].siteIdx < Len(run[r].configs)
                  THEN /\ run'[r].pc = "fetch" /\ run'[r].stage = "listing"
                       /\ run'[r].siteIdx = run[r].siteIdx + 1
                       /\ run'[r].attempt = 1
                  ELSE run'[r].pc = "returned"]_vars

\* C1 witness: the listing fetch of the first of two sites has just failed for
\* good and the run is fetching the listing of the second
C1_Witness ==
    \E r \in Triggers :
        /\ run[r].lastFetch.result = "thrown"
        /\ Len(run[r].lastFetch.attempts) = maxRetries
        /\ run[r].pc = "fetch" /\ run[r].stage = "listing"
        /\ run[r].siteIdx = 2

\* C2: in runs that do not overlap, no two rows of the recipes table share
\* the pair (title, sourceName).
C2_UniqueTitleAndSource == ~HasDuplicateRows

\* C2 witness: one site pass met the same title twice, inserted the first and
\* skipped the second as a duplicate
C2_Witness ==
    \E r \in Triggers :
        /\ run[r].linkLog = <<"inserted", "duplicate">>
        /\ run[r].validLinks = <<R1, R2>>

\* an invocation started while another was under way
Overlapped ==
    \/ \E r \in Triggers : run[r].overlap
    \/ \E i \in 1..Len(runLog) : runLog[i].overlap

\* C3: runs may overlap, and two rows with the same (title, sourceName) are
\* then reachable (the witness); they arise only when invocations overlapped.
C3_DuplicatesOnlyByOverlap == HasDuplicateRows => Overlapped

\* C3 witness: both invocations queried for the same (title, sourceName) before
\* either inserted, both inserted, and the table holds the pair twice
C3_Witness ==
    /\ HasDuplicateRows
    /\ \E r, q \in Triggers :
         /\ r # q
         /\ run[r].totalNew > 0 /\ run[q].totalNew > 0
         /\ run[r].totalDup = 0 /\ run[q].totalDup = 0

\* C4: of two successive runs from an empty table, with no fetch or store
\* failure in either, the second inserts nothing, finds a duplicate for every
\* link the first one extracted, and leaves the table as the first left it.
C4_SecondRunInsertsNothing ==
    (/\ Len(runLog) >= 2
     /\ injected = 0
     /\ Len(runLog[1].rows) = runLog[1].totalNew)
    => /\ runLog[2].totalNew = 0
       /\ runLog[2].totalDup = runLog[1].totalNew + runLog[1].totalDup
       /\ runLog[2].rows = runLog[1].rows
       /\ runLog[1].outcome = "returned" /\ runLog[2].outcome = "returned"

\* C4 witness: two failure-free runs from an empty table, the first of which
\* inserted at least two rows
C4_Witness ==
    /\ Len(runLog) >= 2
    /\ injected = 0
    /\ Len(runLog[1].rows) = runLog[1].totalNew
    /\ runLog[1].totalNew >= 2
    /\ runLog[2].totalDup >= 2

\* a string-or-undefined value is missing or empty
EmptyOrMissing(v) == ~v.def \/ Len(v.s) = 0

\* C5: the extraction returns null exactly when the extracted title or
\* description is empty or missing or no ingredient or no instruction was
\* extracted; a returned record has a non-empty title and description and at
\* least one ingredient and one instruction, each a non-empty string.
C5_CompletenessGate ==
    xresult.done =>
       LET rec == xresult.recipe
           incomplete ==
              \/ EmptyOrMissing(ExtractTitle(xpage))
              \/ EmptyOrMissing(ExtractDescription(xpage))
              \/ Len(ExtractIngredients(xpage)) = 0
              \/ Len(ExtractInstructions(xpage)) = 0
       IN /\ (rec = NoRecipe) <=> incomplete
          /\ rec # NoRecipe =>
                /\ Len(rec.title) > 0 /\ Len(rec.description) > 0
                /\ Len(rec.ingredients) > 0 /\ Len(rec.instructions) > 0
                /\ \A i \in 1..Len(rec.ingredients) : Len(rec.ingredients[i]) > 0
                /\ \A i \in 1..Len(rec.instructions) : Len(rec.instructions[i]) > 0

\* C5 witness: a page with title, ingredients and instructions whose every
\* description source is missing or blank was rejected
C5_Witness ==
    /\ xresult.done
    /\ xresult.recipe = NoRecipe
    /\ ~EmptyOrMissing(ExtractTitle(xpage))
    /\ Len(ExtractIngredients(xpage)) > 0
    /\ Len(ExtractInstructions(xpage)) > 0
    /\ xpage.description # <<>>

\* a row has every required field
CompleteRow(row) ==
    /\ Len(row.title) > 0 /\ Len(row.description) > 0
    /\ Len(row.ingredients) > 0 /\ Len(row.instructions) > 0

\* C6: every row of the table is complete, and a step that adds a row adds
\* one row, extracted from the page of a link of the listing of the
\* configuration being crawled, after a successful fetch, with that
\* configuration's siteName as sourceName.
C6_OnlyCompleteRowsWritten ==
    /\ [](\A i \in 1..Len(recipes) : CompleteRow(recipes[i]))
    /\ [][recipes' # recipes =>
            \E r \in Triggers :
               LET rr == run[r]
                   row == recipes'[Len(recipes')]
               IN /\ recipes' = Append(recipes, row)
                  /\ rr.pc = "insert"
                  /\ \E k \in 1..Len(web[Config(rr)]) : web[Config(rr)][k] = Link(rr)
                  /\ row.sourceUrl = Link(rr)
                  /\ row.sourceName = crawlerConfigs[Config(rr)].siteName
                  /\ rr.recipeData # NoRecipe
                  /\ row.title = rr.recipeData.title
                  /\ CompleteRow(row)
                  /\ row.cookwareType = "skillet"]_vars

\* C6 witness: a pass over a listing whose first link failed validation and
\* whose second link was inserted for Site B
C6_Witness ==
    \E r \in Triggers :
        /\ run[r].linkLog = <<"rejected", "inserted">>
        /\ \E i \in 1..Len(recipes) : recipes[i].sourceName = SiteName(2)

\* C7: when the fetch of a detail page fails terminally, nothing is raised
\* and nothing is written; the run stays on the same site and goes on to the
\* delay of the next link, or to the lastCrawl update if the link was the last.
C7_DetailFailureSkipsLink ==
    [][\A r \in Triggers :
          FetchThrows(r, "detail") =>
             /\ recipes' = recipes
             /\ run'[r].error = NoError
             /\ run'[r].recipeData = NoRecipe
             /\ run'[r].siteIdx = run[r].siteIdx
             /\ run'[r].validLinks = run[r].validLinks
             /\ run'[r].totalNew = run[r].totalNew
             /\ IF run[r].linkIdx < Len(run[r].validLinks)
                THEN run'[r].pc = "delay" /\ run'[r].linkIdx = run[r].linkIdx + 1
                ELSE run'[r].pc = "update"]_vars

\* C7 witness: the first detail fetch of a site failed three times and the run
\* is in the delay of the second link
C7_Witness ==
    \E r \in Triggers :
        /\ run[r].lastFetch.result = "thrown"
        /\ Len(run[r].lastFetch.attempts) = maxRetries
        /\ run[r].pc = "delay" /\ run[r].linkIdx = 2
        /\ run[r].linkLog = <<"fetch_failed">>

\* the outcome of one fetch(url) is a response with a 2xx status
Is2xx(o) == o.kind = "http" /\ o.status \in 200..299

\* C8: a fetchWithRetry call makes at most 3 attempts; no attempt follows a
\* 2xx response, and a call that returns returns the response of its last
\* attempt, the only one that got a 2xx.
C8_AtMostThreeAttempts ==
    \A r \in Triggers :
        LET rr == run[r]
            done == rr.lastFetch.attempts
        IN /\ rr.attempt <= maxRetries
           /\ Len(rr.httpLog) <= maxRetries /\ Len(done) <= maxRetries
           /\ \A i \in 1..Len(rr.httpLog) : ~Is2xx(rr.httpLog[i])
           /\ rr.lastFetch.result = "returned" =>
                 /\ Len(done) >= 1
                 /\ Is2xx(done[Len(done)])
                 /\ \A i \in 1..(Len(done) - 1) : ~Is2xx(done[i])
                 /\ rr.response = rr.lastFetch.response
                 /\ rr.response.attempt = Len(done)
                 /\ rr.response.status = done[Len(done)].status

\* C8 witness: a call returned the response of its third attempt
C8_Witness ==
    \E r \in Triggers :
        /\ run[r].lastFetch.result = "returned"
        /\ Len(run[r].lastFetch.attempts) = maxRetries
        /\ run[r].response.attempt = maxRetries

\* C9: an attempt that gets a non-2xx response fails like one that gets a
\* network error and is retried after a backoff; a call that throws has made
\* 3 attempts, none with a 2xx, and throws the failure of the third; a call
\* that returns returns a 2xx response.
C9_LastFailureRaised ==
    \A r \in Triggers :
        LET rr == run[r]
            done == rr.lastFetch.attempts
        IN /\ rr.pc = "backoff" =>
                 /\ Len(rr.httpLog) = rr.attempt
                 /\ rr.lastError = [kind |-> rr.httpLog[rr.attempt].kind,
                                    status |-> rr.httpLog[rr.attempt].status,
                                    attempt |-> rr.attempt]
           /\ rr.lastFetch.result = "thrown" =>
                 /\ Len(done) = maxRetries
                 /\ \A i \in 1..Len(done) : ~Is2xx(done[i])
                 /\ rr.lastFetch.error = [kind |-> done[maxRetries].kind,
                                          status |-> done[maxRetries].status,
                                          attempt |-> maxRetries]
           /\ rr.lastFetch.result = "returned" => rr.response.status \in 200..299
           /\ rr.pc = "parse" => rr.response.status \in 200..299

\* C9 witness: a call threw after a 404, a 404 and a network error
C9_Witness ==
    \E r \in Triggers :
        /\ run[r].lastFetch.result = "thrown"
        /\ run[r].lastFetch.attempts[1].kind = "http"
        /\ run[r].lastFetch.attempts[2].kind = "http"
        /\ run[r].lastFetch.attempts[3].kind = "network"

\* the step is the one in which invocation r finishes a link with a result
\* other than a store failure
LinkDone(r) ==
    /\ run[r].stage = "detail"
    /\ Len(run'[r].linkLog) = Len(run[r].linkLog) + 1
    /\ run'[r].linkLog[Len(run'[r].linkLog)] # "store_failed"

\* C10: lastCrawl of a site changes only in the update step of a run whose
\* every link of that site has been processed; the update step follows the
\* last link whatever became of the links (fetch failure, rejection,
\* duplicate or insert), and follows at once a listing without links.
C10_LastCrawlAfterAllLinks ==
    /\ [](\A r \in Triggers :
            run[r].pc = "update" =>
               /\ run[r].linkIdx = Len(run[r].validLinks)
               /\ Len(run[r].linkLog) = Len(run[r].validLinks))
    /\ [][/\ \A id \in Sites :
               crawlerConfigs'[id].lastCrawl # crawlerConfigs[id].lastCrawl =>
                  \E r \in Triggers :
                     /\ run[r].pc = "update" /\ Config(run[r]) = id
                     /\ Len(run[r].linkLog) = Len(run[r].validLinks)
                     /\ crawlerConfigs'[id].lastCrawl = started
          /\ \A r \in Triggers :
               /\ (LinkDone(r) /\ run[r].linkIdx = Len(run[r].validLinks))
                     => run'[r].pc = "update"
               /\ (LinkDone(r) /\ run[r].linkIdx < Len(run[r].validLinks))
                     => run'[r].pc = "delay" /\ crawlerConfigs' = crawlerConfigs
               /\ (run[r].pc = "parse" /\ run[r].stage = "listing"
                   /\ run'[r] # run[r] /\ Len(run'[r].validLinks) = 0)
                     => run'[r].pc = "update"]_vars

\* C10 witness: a site was stamped by this run although each of its two links
\* failed, one at the fetch and one at validation
C10_Witness ==
    \E r \in Triggers :
        /\ run[r].siteIdx >= 1
        /\ run[r].pc \in {"fetch", "returned"}
        /\ run[r].linkLog = <<"rejected", "fetch_failed">>
        /\ \E id \in Sites :
              /\ crawlerConfigs[id].lastCrawl = run[r].stamp
              /\ web[id] = <<R3, About, R4>>

\* the rows of every recipe that the links of the listing of site id yield
AllInserted(id) ==
    \A k \in 1..Len(findRecipeLinks(web[id])) :
        LET link == findRecipeLinks(web[id])[k]
            recipeData == ExtractRecipe(link, PageAt(link))
        IN recipeData # NoRecipe =>
              ExistingRecipe(recipes, recipeData.title, SiteName(id))

\* C11 as stated: after a run in which the listing fetch of a site failed on
\* every attempt, lastCrawl of that site is the time of this run, and the
\* recipes of the other site are in the table.
C11_UnreachableSiteStamped ==
    \A r \in Triggers :
        (run[r].pc = "returned" /\ injected = maxRetries) =>
           \A id \in run[r].unreachable :
              /\ crawlerConfigs[id].lastCrawl = run[r].stamp
              /\ \A other \in ConfigSet(run[r]) \ {id} : AllInserted(other)

\* C11 amended: a run in which the listing fetch of a site failed on every
\* attempt is never aborted by it and leaves lastCrawl of that site as it
\* was; when nothing else failed, the other site is stamped with the time of
\* this run and the recipes of its links are in the table.
C11_UnreachableSiteNotStamped ==
    \A r \in Triggers :
        /\ run[r].unreachable # {} => run[r].pc # "raised"
        /\ \A id \in run[r].unreachable :
              /\ id \in ConfigSet(run[r])
              /\ crawlerConfigs[id].lastCrawl < run[r].stamp
        /\ (run[r].pc = "returned" /\ injected = maxRetries) =>
              \A id \in run[r].unreachable :
                 \A other \in ConfigSet(run[r]) \ {id} :
                    /\ crawlerConfigs[other].lastCrawl = run[r].stamp
                    /\ AllInserted(other)

\* C11 witness: of two enabled sites the first was unreachable; the run
\* returned, the first site was never stamped and the second site, stamped
\* by this run, has its recipe in the table
C11_Witness ==
    \E r \in Triggers :
        /\ run[r].pc = "returned" /\ injected = maxRetries
        /\ run[r].configs = <<1, 2>>
        /\ run[r].unreachable = {1}
        /\ crawlerConfigs[1].lastCrawl = 0
        /\ crawlerConfigs[2].lastCrawl = run[r].stamp
        /\ web[2] = <<R1, R2>>
        /\ ExistingRecipe(recipes, <<"x">>, SiteName(2))

\* the step is the one in which invocation r issues the first attempt of the
\* fetch of a detail page
DetailFetchStarts(r) ==
    /\ run'[r] # run[r]
    /\ run'[r].pc = "fetch" /\ run'[r].stage = "detail" /\ run'[r].attempt = 1

\* C12: the fetch of a detail page (the fetchWithRetry call of crawlRecipe)
\* starts only in the step that ends a delay of 2000 ms, taken for the same
\* link; every move to a next link, whether the previous link was inserted,
\* skipped or failed, enters that delay first, and the delay is followed by
\* the fetch and by nothing else.  (The attempts inside one call are
\* separated by the backoff of fetchWithRetry, not by this delay.)
C12_DelayBeforeEveryDetailFetch ==
    /\ [](\A r \in Triggers :
            run[r].pc = "delay" =>
               /\ run[r].timer = CourtesyDelay /\ run[r].stage = "detail"
               /\ run[r].linkIdx \in 1..Len(run[r].validLinks))
    /\ [][\A r \in Triggers :
            /\ DetailFetchStarts(r) =>
                  /\ run[r].pc = "delay" /\ run[r].timer = CourtesyDelay
                  /\ run'[r].linkIdx = run[r].linkIdx
            /\ (run'[r].linkIdx # run[r].linkIdx /\ run'[r].linkIdx # 0) =>
                  /\ run'[r].linkIdx = run[r].linkIdx + 1
                  /\ run'[r].pc = "delay"
            /\ (run[r].pc = "delay" /\ run'[r] # run[r]) =>
                  DetailFetchStarts(r)]_vars

\* C12 witness: the delay before the second link has elapsed and its fetch
\* starts, after the fetch of the first link failed for good
C12_Witness ==
    \E r \in Triggers :
        /\ run[r].pc = "fetch" /\ run[r].stage = "detail" /\ run[r].attempt = 1
        /\ run[r].linkIdx = 2
        /\ run[r].linkLog = <<"fetch_failed">>

\* the step is one in which invocation r issues an HTTP request: the first
\* attempt of a call of fetchWithRetry, or a retry after its backoff
IssuesFetch(r) ==
    /\ run'[r].pc = "fetch"
    /\ <<run'[r].siteIdx, run'[r].linkIdx, run'[r].stage, run'[r].attempt>>
          # <<run[r].siteIdx, run[r].linkIdx, run[r].stage, run[r].attempt>>

\* C13: an invocation issues a request only when it has none outstanding
\* (it is not waiting for one, or the one it waited for has just failed for
\* good); it takes the configurations in the order loaded, one at a time,
\* and the links of a listing in order, one at a time; it moves to the next
\* configuration only in the step that ends the previous one, by the
\* lastCrawl update or by a failure caught at the site boundary.
C13_OneFetchAtATime ==
    /\ [](\A r \in Triggers :
            /\ run[r].siteIdx \in 0..Len(run[r].configs)
            /\ run[r].linkIdx \in 0..Len(run[r].validLinks)
            /\ run[r].visited = { run[r].configs[i] : i \in 1..run[r].siteIdx })
    /\ [][\A r \in Triggers :
            /\ IssuesFetch(r) =>
                  \/ run[r].pc \in {"load", "backoff", "delay", "dedup", "insert", "update"}
                  \/ run[r].pc = "fetch" /\ run'[r].lastFetch.result = "thrown"
            /\ (run'[r].siteIdx # run[r].siteIdx /\ run'[r].siteIdx # 0) =>
                  /\ run'[r].siteIdx = run[r].siteIdx + 1
                  /\ run'[r].pc = "fetch" /\ run'[r].stage = "listing"
                  /\ run'[r].linkIdx = 0
                  /\ \/ run[r].pc = "load"
                     \/ /\ run[r].pc = "update"
                        /\ crawlerConfigs'[Config(run[r])].lastCrawl = started
                     \/ injected' = injected + 1
            /\ (run'[r].linkIdx # run[r].linkIdx /\ run'[r].linkIdx # 0) =>
                  /\ run'[r].linkIdx = run[r].linkIdx + 1
                  /\ run'[r].siteIdx = run[r].siteIdx
                  /\ run[r].pc \in {"parse", "fetch", "dedup", "insert"}]_vars

\* C13 witness: the listing fetch of the second site is outstanding; the
\* first site had two links, both were processed and the site was stamped
C13_Witness ==
    \E r \in Triggers :
        /\ run[r].pc = "fetch" /\ run[r].stage = "listing" /\ run[r].siteIdx = 2
        /\ Len(run[r].linkLog) = 2
        /\ crawlerConfigs[run[r].configs[1]].lastCrawl = run[r].stamp

\* the step is the dedup query of invocation r, and it returns a row
FindsExisting(r) ==
    /\ run[r].pc = "dedup" /\ run'[r] # run[r]
    /\ injected' = injected
    /\ ExistingRecipe(recipes, run[r].recipeData.title, SiteName(Config(run[r])))

\* C14: when the dedup query finds a row with the title and the source of
\* the link's recipe, the table is left as it is and the run goes on to the
\* next link (or to the lastCrawl update) without passing through the
\* insert; no step changes or removes a row that is in the table, and in
\* runs that do not overlap an insert is pending only for a pair (title,
\* sourceName) the table does not hold.
C14_DuplicateWritesNothing ==
    /\ [](\A r \in Triggers :
            run[r].pc = "insert" =>
               ~ExistingRecipe(recipes, run[r].recipeData.title,
                               SiteName(Config(run[r]))))
    /\ [][/\ \A r \in Triggers :
               FindsExisting(r) =>
                  /\ recipes' = recipes
                  /\ run'[r].pc \in {"delay", "update"}
                  /\ run'[r].totalNew = run[r].totalNew
                  /\ run'[r].duplicates = run[r].duplicates + 1
                  /\ run'[r].linkLog = Append(run[r].linkLog, "duplicate")
                  /\ run'[r].linkIdx # run[r].linkIdx \/ run'[r].pc = "update"
          /\ Len(recipes') >= Len(recipes)
          /\ \A i \in 1..Len(recipes) : recipes'[i] = recipes[i]]_vars

\* C14 witness: the table held the recipe of the first link before the run;
\* the query found it, the table still holds that one row and the run is in
\* the delay of the second link
C14_Witness ==
    \E r \in Triggers :
        /\ run[r].linkLog = <<"duplicate">>
        /\ run[r].pc = "delay" /\ run[r].linkIdx = 2
        /\ run[r].totalNew = 0 /\ run[r].stamp = 1
        /\ recipes \in InitialStores /\ Len(recipes) = 1

\* the step is one in which the environment makes a call of invocation r fail
\* while r is inside the site loop
FailsInsideSite(r) ==
    /\ run[r].pc \in {"fetch", "dedup", "insert", "update"}
    /\ run'[r] # run[r]
    /\ injected' = injected + 1

\* C15: runCrawler raises only from the load of the enabled configurations:
\* a run that has raised raised the failure of that query, has loaded no
\* configuration, fetched nothing and written nothing (the table and every
\* lastCrawl are as the previous run left them); a failure inside the site
\* loop never makes the run raise.
C15_OnlyLoadFailureAborts ==
    /\ [](\A r \in Triggers :
            run[r].pc = "raised" =>
               /\ run[r].error = StoreError
               /\ run[r].configs = <<>> /\ run[r].siteIdx = 0
               /\ run[r].visited = {} /\ run[r].unreachable = {}
               /\ run[r].attempt = 0 /\ run[r].lastFetch = NoFetch
               /\ run[r].totalNew = 0 /\ run[r].totalDup = 0
               /\ \A id \in Sites : crawlerConfigs[id].lastCrawl < run[r].stamp
               /\ IF runLog = <<>> THEN recipes \in InitialStores
                  ELSE recipes = runLog[Len(runLog)].rows)
    /\ [][\A r \in Triggers :
            /\ (run'[r].pc = "raised" /\ run[r].pc # "raised") =>
                  /\ run[r].pc = "load"
                  /\ injected' = injected + 1
                  /\ recipes' = recipes /\ crawlerConfigs' = crawlerConfigs
            /\ FailsInsideSite(r) =>
                  /\ run'[r].pc \notin {"raised", "thrown"}
                  /\ run'[r].error = NoError]_vars

\* C15 witness: a first run inserted rows and returned; the second run raised
\* at the load of the configurations
C15_Witness ==
    \E r \in Triggers :
        /\ run[r].pc = "raised" /\ run[r].stamp = 2
        /\ Len(runLog) = 1 /\ runLog[1].totalNew >= 1
        /\ runLog[1].outcome = "returned"

\* no configuration is enabled
NoneEnabled == \A id \in Sites : ~crawlerConfigs[id].enabled

\* C16: an invocation loads exactly the enabled configurations and works on
\* no other: it fetches the listing of enabled sites only, every row it adds
\* carries the name of an enabled site, and the configuration of a disabled
\* site (its lastCrawl included) stays as it was.  When no configuration is
\* enabled, the load that succeeds is followed at once by the return of the
\* run, and no run fetches or writes anything.
C16_DisabledNeverTouched ==
    /\ [](\A r \in Triggers :
            /\ \A id \in ConfigSet(run[r]) \cup run[r].visited :
                  crawlerConfigs[id].enabled
            /\ run[r].siteIdx > 0 => run[r].configs = EnabledConfigs(crawlerConfigs)
            /\ NoneEnabled =>
                  /\ run[r].pc \in {"idle", "load", "returned", "raised"}
                  /\ run[r].visited = {} /\ run[r].totalNew = 0)
    /\ [](\A id \in Sites :
            ~crawlerConfigs[id].enabled => crawlerConfigs[id].lastCrawl = 0)
    /\ [](NoneEnabled => recipes \in InitialStores)
    /\ [][/\ recipes' # recipes =>
               \E id \in Sites :
                  /\ crawlerConfigs[id].enabled
                  /\ recipes'[Len(recipes')].sourceName = SiteName(id)
          /\ \A id \in Sites :
               ~crawlerConfigs[id].enabled => crawlerConfigs'[id] = crawlerConfigs[id]
          /\ \A r \in Triggers :
               (/\ NoneEnabled
                /\ run[r].pc = "load" /\ run'[r] # run[r]
                /\ injected' = injected) => run'[r].pc = "returned"]_vars

\* C16 witness: the first site is disabled and its listing has links; the
\* run returned, having stamped the second site and stored a recipe of it,
\* and lastCrawl of the first site is still unset
C16_Witness ==
    \E r \in Triggers :
        /\ run[r].pc = "returned"
        /\ ~crawlerConfigs[1].enabled /\ crawlerConfigs[2].enabled
        /\ web[1] = <<R1, R2>>
        /\ crawlerConfigs[1].lastCrawl = 0
        /\ crawlerConfigs[2].lastCrawl = run[r].stamp
        /\ run[r].totalNew >= 1
        /\ recipes[Len(recipes)].sourceName = SiteName(2)

\* the step is the one in which a request to the manual trigger is received
RequestArrives == run["manual"].pc = "idle" /\ run'["manual"].pc = "load"

\* the step is the one in which the run of the manual trigger ends
ManualRunEnds ==
    run["manual"].pc \in {"returned", "raised"} /\ run'["manual"].pc = "idle"

\* C17 as stated: the step that receives the request answers it with
\* "Crawler started", while the run it started is still at its first await;
\* the end of that run, by return or by failure, leaves the answer as it is,
\* and the answer is never an error.
C17_AcknowledgedWithoutWaiting ==
    /\ [](res.status # 500)
    /\ [][/\ RequestArrives => res' = Started
          /\ ManualRunEnds => res' = res]_vars

\* C17 for the handler of routes.ts:97-107 alone: there the claim holds
C17_BackgroundHandlerAcknowledges ==
    /\ [](handler = "background" => res.status # 500)
    /\ [][handler = "background" =>
             /\ RequestArrives => res' = Started
             /\ ManualRunEnds => res' = res]_vars

\* the handler of routes.ts:97-107 has answered and the run it started has
\* failed since
C17_BackgroundFailureLogged ==
    /\ handler = "background"
    /\ analysis = IdleAnalysis
    /\ res = Started
    /\ run["manual"].pc = "raised"

\* a call of normalizeUrl has returned or raised
Normalized == ucall.fn \in Versions /\ Len(uresult) >= 1

\* the string without its whitespace
Stripped(s) == SelectSeq(s, LAMBDA c : c # " ")

\* the string is an http or https URL as far as its first characters tell
IsHttp(s) == StartsWith(s, HTTP) \/ StartsWith(s, HTTPS)

\* the indices of the anchors whose href normalizes to a non-empty URL
Normalizable(hrefs, baseUrl) ==
    { i \in 1..Len(hrefs) :
        Truthy(hrefs[i]) /\ normalizeUrl(hrefs[i].s, baseUrl).value # <<>> }

C19_CandidateUnchanged ==
    (Normalized /\ ParseUrl(ucall.baseUrl).ok) =>
       LET url == ucall.url
           u == ParseUrl(ucall.baseUrl)
           v == uresult[1].value
       IN /\ IsHttp(url) => v = url
          /\ StartsWith(url, DATA) => v = url
          /\ StartsWith(url, Slashes) => v = u.protocol \o url
          /\ (StartsWith(url, <<"/">>) /\ ~StartsWith(url, Slashes)) =>
                v = Origin(u) \o url

\* C19 amended: normalizeUrl first removes all whitespace from the
\* candidate; with a base that parses, what is left is returned as it is
\* when it starts with http:// or https:// or is a data: URI, after the
\* scheme of the base when it starts with //, and after the origin of the
\* base (scheme, host, port) when it starts with a single /; a candidate
\* that starts with // is never given the origin.
C19_CleanedCandidateCases ==
    (Normalized /\ ParseUrl(ucall.baseUrl).ok) =>
       LET cleanUrl == Stripped(ucall.url)
           u == ParseUrl(ucall.baseUrl)
           v == uresult[1].value
       IN /\ ~uresult[1].thrown
          /\ IsHttp(cleanUrl) => v = cleanUrl
          /\ StartsWith(cleanUrl, DATA) => v = cleanUrl
          /\ StartsWith(cleanUrl, Slashes) =>
                /\ v = u.protocol \o cleanUrl
                /\ v # Origin(u) \o cleanUrl
          /\ (StartsWith(cleanUrl, <<"/">>) /\ ~StartsWith(cleanUrl, Slashes)) =>
                v = u.protocol \o Slashes \o u.host \o cleanUrl

\* C19 witness: a protocol-relative candidate with whitespace around and
\* inside it was returned, stripped, after the scheme of a base with a port
C19_Witness ==
    /\ Normalized
    /\ ucall.fn = "part_010"
    /\ ucall.baseUrl = HTTP \o <<"a", ":", "8", "/", "c">>
    /\ ucall.url = <<" ">> \o Slashes \o <<"a", " ", "c", " ", "e", " ">>
    /\ uresult[1] = Returned(SchemeHttp \o Slashes \o <<"a", "c", "e">>)

\* C20: for a candidate that starts with http:// or https://, normalizing
\* the result of normalizeUrl again, with the same base, returns it unchanged.
C20_IdempotentOnAbsolute ==
    (ucall.fn \in Versions /\ Len(uresult) = 2 /\ IsHttp(ucall.url)) =>
       /\ uresult[2] = uresult[1]
       /\ ~uresult[1].thrown /\ uresult[1].value # <<>>

\* C20 witness: the first call changed the candidate (it removed two runs of
\* whitespace) and the second call returned what the first had returned
C20_Witness ==
    /\ ucall.fn = "crawler.ts" /\ Len(uresult) = 2
    /\ ucall.url = HTTPS \o <<"a", " ", "c", " ", "e">>
    /\ uresult[1].value = HTTPS \o <<"a", "c", "e">>
    /\ uresult[2] = uresult[1]

----------------------------------------------------------------------------
(* C23  The waits of fetchWithRetry                                        *)

\* the invocation is in the wait that follows failed attempt k
WaitsAfter(r, k) == run[r].pc = "backoff" /\ run[r].attempt = k

----------------------------------------------------------------------------
(* C29  A storage failure inside the link loop                             *)

\* the dedup query or the insert of the link under way fails in this step
StoreFails(r) ==
    /\ run[r].pc \in {"dedup", "insert"}
    /\ injected' = injected + 1

\* C29: a failure of the dedup query or of the insert for one link is caught
\* at the site boundary only.  The step that fails writes nothing (the rows
\* inserted for earlier links stay), drops the remaining links of the site
\* and goes on with the next enabled site (or ends the run normally after
\* the last one); the run never comes back to a site it left this way, and
\* the lastCrawl of such a site is not the stamp of this run.
C29_StoreFailureSkipsRestOfSite ==
    /\ [][\A r \in Triggers :
            /\ StoreFails(r) =>
                  /\ recipes' = recipes
                  /\ crawlerConfigs' = crawlerConfigs
                  /\ Config(run[r]) \in run'[r].storeFailed
                  /\ run'[r].configs = run[r].configs
                  /\ run'[r].error = NoError
                  /\ IF run[r].siteIdx < Len(run[r].configs)
                     THEN /\ run'[r].siteIdx = run[r].siteIdx + 1
                          /\ run'[r].pc = "fetch" /\ run'[r].stage = "listing"
                          /\ run'[r].attempt = 1
                          /\ run'[r].validLinks = <<>> /\ run'[r].linkIdx = 0
                     ELSE run'[r].pc = "returned"
            /\ run[r].pc \notin {"idle", "returned", "raised"} =>
                  /\ run'[r].siteIdx >= run[r].siteIdx
                  /\ Len(recipes') >= Len(recipes)
                  /\ SubSeq(recipes', 1, Len(recipes)) = recipes]_vars
    /\ [](\A r \in Triggers : \A id \in run[r].storeFailed :
            /\ crawlerConfigs[id].lastCrawl # run[r].stamp
            /\ run[r].pc # "raised"
            /\ id \in run[r].visited
            /\ run[r].pc \in {"fetch", "backoff", "parse", "delay", "dedup", "insert",
                              "update"} => Config(run[r]) # id)

\* C29 witness: the first link of site 1 was inserted, a later link of the
\* site failed in the store, and the run is fetching the listing of site 2
C29_Witness ==
    \E r \in Triggers :
        /\ 1 \in run[r].storeFailed
        /\ Len(run[r].linkLog) >= 2
        /\ run[r].linkLog[1] = "inserted"
        /\ run[r].linkLog[Len(run[r].linkLog)] = "store_failed"
        /\ run[r].pc = "fetch" /\ run[r].stage = "listing" /\ Config(run[r]) = 2
        /\ Len(recipes) >= 1

----------------------------------------------------------------------------
(* C27  parseTimeToMinutes                                                 *)

\* parseTimeToMinutes has returned for the text under study
TimeParsed == ucall.fn = "parseTimeToMinutes" /\ Len(uresult) = 1

\* the minutes the text under study stands for: 60 times its amount of hours
\* plus its amount of minutes; an amount without a unit counts, as minutes,
\* only when the text holds no unit at all
MinutesMeant ==
    IF ucall.hourToken # <<>> \/ ucall.minuteToken # <<>>
    THEN 60 * ucall.hours.value
         + (IF ucall.minuteToken # <<>> THEN ucall.minutes.value ELSE 0)
    ELSE ucall.minutes.value

\* C27: parseTimeToMinutes returns 60 times the number before the hour unit
\* (hour, hr, h) plus the number before the minute unit (minute, min, m), in
\* either case of the letters; a text with a number and no unit gives that
\* number; a text with no number gives 0, which crawlRecipe takes as not
\* detected.  "1 hour 30 minutes" gives 90, "45 min" 45, "2 hr" 120, "45"
\* 45 and "tbd" 0.  It never throws.
C27_TimeParsedToMinutes ==
    TimeParsed =>
       /\ ~uresult[1].thrown
       /\ uresult[1].value = MinutesMeant
       /\ (\A i \in 1..Len(ucall.timeStr) : ~IsDigit(ucall.timeStr[i])) =>
             uresult[1].value = 0
       /\ ucall.timeStr = <<"1", " ", "h", "o", "u", "r", " ", "3", "0", " ", "m", "i", "n", "u", "t", "e", "s">> => uresult[1].value = 90
       /\ ucall.timeStr = <<"4", "5", " ", "m", "i", "n">> => uresult[1].value = 45
       /\ ucall.timeStr = <<"2", " ", "h", "r">> => uresult[1].value = 120
       /\ ucall.timeStr = <<"4", "5">> => uresult[1].value = 45
       /\ ucall.timeStr = <<"t", "b", "d">> => uresult[1].value = 0

\* C27 witnesses: the five texts of the claim have been parsed
C27_Witness == TimeParsed /\ ucall.timeStr = <<"1", " ", "h", "o", "u", "r", " ", "3", "0", " ", "m", "i", "n", "u", "t", "e", "s">>
C27_WitnessMinutes == TimeParsed /\ ucall.timeStr = <<"4", "5", " ", "m", "i", "n">>
C27_WitnessHours == TimeParsed /\ ucall.timeStr = <<"2", " ", "h", "r">>
C27_WitnessBare == TimeParsed /\ ucall.timeStr = <<"4", "5">>
C27_WitnessNone == TimeParsed /\ ucall.timeStr = <<"t", "b", "d">>

----------------------------------------------------------------------------
(* C22  The defaults of a persisted recipe                                 *)

\* runCrawler has persisted the recipe of the page under study
Persisted == ucall.fn = "crawlRecipe" /\ xresult.done /\ Len(recipes) = 1

\* the extractor detected a time: its record holds the field, and a value
\* other than the 0 the field starts from
TimeDetected(recipeData, field) ==
    field \in DOMAIN recipeData /\ recipeData[field] > 0

\* C22 as the specification states it: the row of a persisted recipe has
\* cookwareType "skillet"; a prepTime or cookTime the extractor detected is
\* stored as detected; one it did not detect is stored as the default, never
\* as 0; difficulty and servings are the detected or the default value.
C22_DefaultsOnlyWhenUndetected ==
    Persisted =>
       LET row == recipes[1]
           recipeData == xresult.recipe
       IN /\ row.cookwareType = "skillet"
          /\ \A field \in {"prepTime", "cookTime"} :
                IF TimeDetected(recipeData, field)
                THEN row[field] = recipeData[field]
                ELSE row[field] = DefaultTime /\ row[field] # 0
          /\ row.difficulty \in {"easy", "medium", "hard"}
          /\ row.servings > 0

\* C22, the part that holds of both revisions: cookwareType is "skillet",
\* a detected time, difficulty or number of servings is stored as detected,
\* and without a detector the defaults medium, 30, 30 and 4 are stored
C22_SkilletAndDetectedKept ==
    Persisted =>
       LET row == recipes[1]
           recipeData == xresult.recipe
       IN /\ row.cookwareType = "skillet"
          /\ \A field \in {"prepTime", "cookTime"} :
                TimeDetected(recipeData, field) => row[field] = recipeData[field]
          /\ "difficulty" \in DOMAIN recipeData =>
                /\ row.difficulty = recipeData.difficulty
                /\ row.servings = recipeData.servings
          /\ "difficulty" \notin DOMAIN recipeData =>
                /\ row.difficulty = "medium" /\ row.servings = DefaultServings
                /\ row.prepTime = DefaultTime /\ row.cookTime = DefaultTime

\* the failing input reached: part_010 persisted a page without a prep time
\* element, and the row holds prepTime 0
C22_UndetectedStoredAsZero ==
    /\ Persisted /\ ucall.version = "part_010"
    /\ xpage.prepTime = <<>> /\ recipes[1].prepTime = 0

----------------------------------------------------------------------------
(* C26  Repeated ingredients and repeated instructions                     *)

\* crawlRecipe has returned a record for the page under study
Extracted == ucall.fn = "crawlRecipe" /\ xresult.done /\ ~xresult.recipe.isNull

\* how many elements of texts equal t
Occurrences(texts, t) == Cardinality({i \in 1..Len(texts) : texts[i] = t})

\* the trimmed texts of the elements a selector matches, empty ones included
Trimmed(els) == [i \in 1..Len(els) |-> trim(els[i])]

\* the index of the first element whose trimmed text is t
FirstIndex(els, t) ==
    CHOOSE i \in 1..Len(els) : trim(els[i]) = t /\ \A j \in 1..(i - 1) : trim(els[j]) # t

\* the returned ingredients hold no text twice, and keep the order in which
\* the texts first occur in the page
IngredientsOnce ==
    LET ingredients == xresult.recipe.ingredients
    IN /\ \A i, j \in 1..Len(ingredients) : i # j => ingredients[i] # ingredients[j]
       /\ \A i, j \in 1..Len(ingredients) :
             i < j => FirstIndex(xpage.ingredients, ingredients[i])
                        < FirstIndex(xpage.ingredients, ingredients[j])

\* a returned instruction stands in the result as often as elements of the
\* page hold it
InstructionsRepeated ==
    LET instructions == xresult.recipe.instructions
    IN \A i \in 1..Len(instructions) :
          Occurrences(instructions, instructions[i])
             = Occurrences(Trimmed(xpage.instructions), instructions[i])

\* C26 as the specification states it: crawlRecipe returns an ingredient
\* text once however many elements hold it, first occurrences in order, and
\* returns a repeated instruction text as often as it is repeated.
C26_IngredientsOnceInstructionsRepeated ==
    Extracted => IngredientsOnce /\ InstructionsRepeated

\* C26 for crawlRecipe of part_007 alone, and the instructions of every
\* revision: there the claim holds
C26_SetRevisionDeduplicates ==
    Extracted => /\ InstructionsRepeated
                 /\ ucall.version = "part_007" => IngredientsOnce

\* the failing input reached: crawlRecipe of crawler.ts returned the text of
\* the repeated ingredient three times
C26_RepeatedIngredientReturned ==
    /\ Extracted /\ ucall.version = "crawler.ts"
    /\ Occurrences(xresult.recipe.ingredients, <<"x", "y">>) = 3

----------------------------------------------------------------------------
(* C24, C25  What findRecipeLinks returns                                  *)

\* findRecipeLinks has returned for the listing under study
LinksFound == ucall.fn = "findRecipeLinks" /\ Len(uresult) = 1

\* the normalized URL of anchor i of the listing (empty when it has none)
AnchorUrl(i) ==
    IF Truthy(ucall.hrefs[i])
    THEN normalizeUrlData(ucall.hrefs[i].s, ucall.baseUrl).value
    ELSE <<>>

\* the index of the first anchor of the listing that normalizes to url
FirstAnchor(url) ==
    CHOOSE i \in 1..Len(ucall.hrefs) :
        AnchorUrl(i) = url /\ \A j \in 1..(i - 1) : AnchorUrl(j) # url

\* the result holds no URL twice, and lists the URLs in the order of their
\* first anchors
ReturnedOnceInOrder ==
    LET links == uresult[1].value
    IN /\ \A i, j \in 1..Len(links) : i # j => links[i] # links[j]
       /\ \A i \in 1..Len(links) : \E k \in 1..Len(ucall.hrefs) : AnchorUrl(k) = links[i]
       /\ \A i, j \in 1..Len(links) :
             i < j => FirstAnchor(links[i]) < FirstAnchor(links[j])

\* C24 as the specification states it: findRecipeLinks returns each
\* normalized URL at most once, in the order of the first occurrences in the
\* listing document.
C24_EachUrlOnce == LinksFound => ReturnedOnceInOrder

\* C24 for the revisions that collect the URLs in a Set: there it holds
C24_SetRevisionsReturnOnce ==
    (LinksFound /\ ucall.version # "crawler.ts") => ReturnedOnceInOrder

\* the failing input reached: two anchors of the listing normalize to the
\* same recipe URL and findRecipeLinks of crawler.ts returned it twice
C24_SameUrlReturnedTwice ==
    /\ LinksFound /\ ucall.version = "crawler.ts"
    /\ \E i, j \in 1..Len(uresult[1].value) :
          i # j /\ uresult[1].value[i] = uresult[1].value[j]

\* the URL is one the specification keeps: lowercased, it holds one of the
\* keywords, or it holds two (hence also four) digits in a row
KeptBySpecification(url) ==
    \/ \E word \in { <<"r", "e", "c", "i", "p", "e">>, <<"r", "e", "c", "i", "p", "e", "s">>, <<"c", "o", "o", "k", "i", "n", "g">>, <<"f", "o", "o", "d">> } :
          Includes(toLowerCase(url), word)
    \/ \E i \in 1..(Len(url) - 1) : IsDigit(url[i]) /\ IsDigit(url[i + 1])

\* the result holds exactly the URLs of the anchors that the specification
\* keeps
KeepsExactlyTheKept ==
    LET links == uresult[1].value
    IN /\ \A i \in 1..Len(links) : KeptBySpecification(links[i])
       /\ \A k \in 1..Len(ucall.hrefs) :
             (AnchorUrl(k) # <<>> /\ KeptBySpecification(AnchorUrl(k))) =>
                \E i \in 1..Len(links) : links[i] = AnchorUrl(k)
       /\ \A i \in 1..Len(links) : links[i] # AboutPage
       /\ (\E k \in 1..Len(ucall.hrefs) : ucall.hrefs[k] = Str(BananaRecipe)) =>
             \E i \in 1..Len(links) : links[i] = BananaRecipe

\* C25 as the specification states it: findRecipeLinks keeps a normalized
\* URL exactly when, case-insensitively, it holds "recipe", "recipes",
\* "cooking" or "food", or holds a numeric token of 2 or 4 digits; it keeps
\* https://site.com/blog/2024-banana-skillet-recipe and discards
\* https://site.com/about.
C25_KeywordOrDigits == LinksFound => KeepsExactlyTheKept

\* C25 for findRecipeLinks of part_006: there it holds
C25_HeuristicRevisionKeeps ==
    (LinksFound /\ ucall.version = "part_006") => KeepsExactlyTheKept

\* the failing input reached: the listing holds the anchor of the banana
\* skillet recipe and findRecipeLinks of crawler.ts returned no link
C25_BananaRecipeDiscarded ==
    /\ LinksFound /\ ucall.version = "crawler.ts"
    /\ ucall.hrefs[1] = Str(BananaRecipe)
    /\ uresult[1].value = <<>>

----------------------------------------------------------------------------
(* C21  analyzeWebsite writes nothing                                      *)

\* analyzeWebsite has returned
AnalysisReturned == analysis.pc = "returned"

\* the crawler_configs table as the analysis found it
ConfigsUntouched ==
    \A id \in Sites :
        crawlerConfigs[id] = [siteName |-> SiteName(id), siteUrl |-> SiteUrl(id),
                              enabled |-> TRUE, lastCrawl |-> 0]

\* C21: analyzeWebsite never writes to storage.  No step of it changes the
\* recipes table or the crawler_configs table, whatever the analyzed site
\* and however the call ends (a sample extracted, no link found, the sample
\* extraction null, the failure of the fetch raised): both tables are as
\* they were before the call, and the sample is held by the returned value
\* only.
C21_AnalysisWritesNothing ==
    /\ [][recipes' = recipes /\ crawlerConfigs' = crawlerConfigs]_vars
    /\ [](recipes \in InitialStores /\ ConfigsUntouched)
    /\ [](~analysis.sampleRecipe.isNull => AnalysisReturned)

\* C21 witness: a sample was extracted and returned, next to a recipes table
\* that held a row before the call
C21_Witness ==
    /\ AnalysisReturned /\ ~analysis.sampleRecipe.isNull
    /\ Len(recipes) = 1

\* C21, the other outcomes: no link found, the sample extraction null, the
\* failure raised
C21_WitnessNoLink ==
    AnalysisReturned /\ analysis.recipeLinks # "none" /\ analysis.links = <<>>
C21_WitnessNullSample ==
    AnalysisReturned /\ analysis.links # <<>> /\ analysis.sampleRecipe.isNull
C21_WitnessRaised == analysis.pc = "raised" /\ Len(recipes) = 1

----------------------------------------------------------------------------
(* C28  The suggested recipeLinks selector                                 *)

\* analyzeWebsite has chosen selectors.recipeLinks
SelectorSuggested == analysis.recipeLinks # "none"

\* how many elements of the analyzed page the pattern matches
MatchCount(selector) == Len(Matched(analysis.site, selector))

\* no candidate pattern matches more elements than the suggested one
SuggestsMostMatched ==
    LET selectors == LinkPatterns(analysis.version)
    IN /\ \A i \in 1..Len(selectors) :
             MatchCount(selectors[i]) <= MatchCount(analysis.recipeLinks)
       /\ (MatchCount(PatternA) = 12 /\ MatchCount(PatternB) = 3) =>
             analysis.recipeLinks = PatternA
       /\ (MatchCount(PatternB) = 12 /\ MatchCount(PatternA) = 3) =>
             analysis.recipeLinks = PatternB

\* C28 as the specification states it: the suggested recipeLinks selector is
\* the candidate pattern that matches the most elements of the analyzed
\* page, not the first that matches; of a pattern with 12 anchors and one
\* with 3 it is the former, whichever comes first in the list.
C28_MostMatchedSuggested == SelectorSuggested => SuggestsMostMatched

\* C28 for analyzeWebsite of part_010, which counts: there it holds
C28_CountingRevisionSuggestsMost ==
    (SelectorSuggested /\ analysis.version = "part_010") => SuggestsMostMatched

\* the failing input reached: the first pattern matches 3 anchors, a later
\* one 12, and analyzeWebsite of crawler.ts suggests the first
C28_FirstMatchSuggested ==
    /\ analysis.version = "crawler.ts"
    /\ MatchCount(PatternA) = 3 /\ MatchCount(PatternB) = 12
    /\ analysis.recipeLinks = PatternA

----------------------------------------------------------------------------
(* C30  Every run terminates                                               *)

\* every invocation of runCrawler comes to its end, returned or raised
Terminates == \A r \in Triggers : (run[r].pc # "idle") ~> (run[r].pc = "idle")

\* a fetchWithRetry call of a run has made at most 3 attempts, and the run
\* makes one such call per site and one per link it processes: the sites and
\* the links are taken in order, one step of the index at a time
BoundedAttempts ==
    /\ [](\A r \in Triggers :
            /\ run[r].attempt <= 3 /\ Len(run[r].httpLog) <= 2
            /\ Len(run[r].lastFetch.attempts) <= 3
            /\ run[r].siteIdx <= Len(run[r].configs)
            /\ run[r].linkIdx <= Len(run[r].validLinks))
    /\ [][\A r \in Triggers :
            /\ run'[r].siteIdx \in {run[r].siteIdx, run[r].siteIdx + 1, 0}
            /\ run'[r].linkIdx \in {run[r].linkIdx, run[r].linkIdx + 1, 0}
            /\ (run'[r].pc = "fetch" /\ run'[r].attempt = 1 /\ run[r].pc # "fetch") =>
                  \/ run'[r].stage = "listing" /\ run'[r].siteIdx = run[r].siteIdx + 1
                  \/ run'[r].stage = "detail" /\ run[r].pc = "delay"
            /\ run'[r].pc = "delay" =>
                  run'[r].linkIdx = run[r].linkIdx + 1]_vars

\* the step is the one in which invocation r leaves the site it works on
LeavesSite(r) ==
    /\ run[r].siteIdx >= 1 /\ run[r].pc \notin {"idle", "returned", "raised"}
    /\ run'[r].siteIdx # run[r].siteIdx \/ run'[r].pc = "returned"

\* C30 as the specification states it: every run of runCrawler terminates,
\* after at most 3 attempts per listing fetch and per detail fetch, and by
\* the time it leaves a site it has processed each discovered link of the
\* site exactly once.
C30_TerminatesEachLinkOnce ==
    /\ Terminates
    /\ BoundedAttempts
    /\ [][\A r \in Triggers :
            LeavesSite(r) => run[r].linkIdx = Len(run[r].validLinks)]_vars

\* C30 amended: every run terminates, after at most 3 attempts per listing
\* fetch and per detail fetch; it processes each discovered link at most
\* once, and leaves a site with links not processed only when the dedup
\* query or the insert of a link has failed.
C30_TerminatesEachLinkAtMostOnce ==
    /\ Terminates
    /\ BoundedAttempts
    /\ [][\A r \in Triggers :
            LeavesSite(r) =>
               \/ run[r].linkIdx = Len(run[r].validLinks)
               \/ StoreFails(r) /\ run[r].linkIdx < Len(run[r].validLinks)]_vars

\* C30 witness: a run has returned after it left a site at the store failure
\* of the first of its links
C30_Witness ==
    \E r \in Triggers :
        /\ run[r].pc = "returned"
        /\ run[r].storeFailed # {}
        /\ run[r].linkLog = <<"store_failed">>

====
